---- MODULE Spec2Model ----
(***************************************************************************)
(* A model of the grokpi gateway core: the credential rotation pool        *)
(* (file-backed SSOManager and shared-store RedisSSOManager) and the       *)
(* receive loop of the generation protocol client.                         *)
(*                                                                         *)
(* Credentials are opaque strings.  Wall-clock time is an integer number   *)
(* of seconds that the environment advances (Tick).  _key_hash (a 48-bit   *)
(* md5 prefix) is taken to be injective on the handful of credentials the  *)
(* model draws, so persisted records are keyed by the credential itself.   *)
(* KeyUsage.first_used is written but never read by the program and is     *)
(* left out.  _save_state is taken to succeed (its I/O failure path only   *)
(* logs).                                                                  *)
(***************************************************************************)
EXTENDS Integers, Sequences, FiniteSets, TLC

\* ------------------------------------------------------------- bounds ---
\* largest configured daily limit drawn; record_usage is unguarded in the
\* code, and the model stops counting a credential's uses there too
MaxLimit == 2
\* number of clock advances
MaxTicks == 2

\* --------------------------------------------------- program constants ---
RESET_INTERVAL == 86400

\* the clock advances by half a reset interval; it starts one interval
\* after the epoch, so that (as with a real clock) now - 0 >= RESET_INTERVAL
TickSeconds == RESET_INTERVAL \div 2
StartTime == RESET_INTERVAL

None == "None"
\* the credentials a source file may list
KeyNames == <<"k1", "k2", "k3">>
\* a credential a caller pins; it is never listed in the source file
Pinned == "px"

Strategies == {"round_robin", "least_used", "least_recent", "weighted", "hybrid"}

VARIABLES
    fm,          \* the SSOManager object and its sso_state.json
    rm,          \* the RedisSSOManager object and the Redis keys it uses
    rc,          \* the get_next_sso calls in flight on the Redis store
    gen,         \* one attempt of the protocol client (_do_generate)
    call,        \* one generate() call: its retry loop over the pool
    stream,      \* one generate_stream() generator: queue, done, consumer
    backend,     \* "file" or "redis" (settings.REDIS_ENABLED)
    ssoFile,     \* lines of the credential source file (settings.SSO_FILE)
    callers,     \* the credentials callers pass to the pool's operations
    strategy,    \* configured rotation strategy
    daily_limit, \* configured daily limit
    now,         \* wall clock, seconds
    observe,     \* whether the observers op and cycle are kept
    op,          \* observer: the last selection and what it returned
    cycle,       \* observer: credentials selected since the selectable list last changed
    trail        \* observer: the selections of a run of get_next_sso + record_usage pairs

\* configuration and environment shared by both pool managers
envVars == <<ssoFile, callers, strategy, daily_limit, observe, backend>>
obsVars == <<op, cycle, trail>>
clientVars == <<call, stream>>
nonFileVars == <<rm, rc, gen, clientVars>>
nonRedisVars == <<fm, gen, clientVars>>
vars == <<fm, rm, rc, gen, call, stream, backend, ssoFile, callers, strategy, daily_limit, now,
          observe, op, cycle, trail>>

\* ------------------------------------------------------------ helpers ---
Range(s) == {s[i] : i \in 1..Len(s)}

RECURSIVE SeqFilter(_, _)
\* the subsequence of s whose elements are in S, order kept
SeqFilter(s, S) ==
    IF s = <<>> THEN <<>>
    ELSE IF Head(s) \in S THEN <<Head(s)>> \o SeqFilter(Tail(s), S)
    ELSE SeqFilter(Tail(s), S)

Min(a, b) == IF a < b THEN a ELSE b

\* dataclass KeyUsage with its defaults
KeyUsage == [count |-> 0, last_used |-> 0, failed |-> FALSE, age_verified |-> 0]

\* self._usage.get(sso, KeyUsage())
UsageGet(usage, sso) == IF sso \in DOMAIN usage THEN usage[sso] ELSE KeyUsage

\* dict assignment usage[sso] = v
UsagePut(usage, sso, v) ==
    [c \in DOMAIN usage \cup {sso} |-> IF c = sso THEN v ELSE usage[c]]

\* ------------------------------------------------ credential source file ---
\* a line of the source file is a credential, a blank line or a comment
IsKeyLine(line) == line /= "" /\ line /= "#"

RECURSIVE ParseSsoFile(_)
\* the loop over the file's lines in load_sso_list / _load_from_file
ParseSsoFile(lines) ==
    IF lines = <<>> THEN <<>>
    ELSE IF IsKeyLine(Head(lines)) THEN <<Head(lines)>> \o ParseSsoFile(Tail(lines))
    ELSE ParseSsoFile(Tail(lines))

\* the source file listing the first k credentials, with a comment and a blank line
SourceFile(k) == <<"#">> \o [i \in 1..k |-> KeyNames[i]] \o <<"">>

\* --------------------------------------------------------- SSOManager ---
\* SSOManager.__init__ : nothing loaded, no state file written yet
EmptyUsage == [c \in {} |-> KeyUsage]

NoStateFile == [exists |-> FALSE, last_reset |-> 0, current_index |-> 0,
                usage |-> EmptyUsage]

\* did_reset, reset_at and reset_by are observer fields: whether the
\* operation in progress ran _do_daily_reset, when _do_daily_reset last ran
\* and from where ("check": _check_daily_reset, "load": _load_state,
\* "manual": reset_daily_usage)
SSOManager_init ==
    [sso_list |-> <<>>, current_index |-> 0, usage |-> EmptyUsage, last_reset |-> 0,
     file |-> NoStateFile, did_reset |-> FALSE, reset_at |-> 0, reset_by |-> ""]

\* _save_state: the whole state is rewritten
SSOManager_save_state(m) ==
    [m EXCEPT !.file = [exists |-> TRUE, last_reset |-> m.last_reset,
                        current_index |-> m.current_index, usage |-> m.usage]]

\* _do_daily_reset that leaves _last_reset as it was
Mutant_do_daily_reset_no_stamp(m, t, by) ==
    SSOManager_save_state(
        [m EXCEPT !.usage = [c \in DOMAIN m.usage |->
                                IF c \in Range(m.sso_list)
                                THEN [m.usage[c] EXCEPT !.count = 0, !.failed = FALSE]
                                ELSE m.usage[c]],
                  !.did_reset = TRUE, !.reset_at = t, !.reset_by = by])

\* _do_daily_reset at time t, called from `by`
SSOManager_do_daily_reset(m, t, by) ==
    SSOManager_save_state(
        [m EXCEPT !.usage = [c \in DOMAIN m.usage |->
                                IF c \in Range(m.sso_list)
                                THEN [m.usage[c] EXCEPT !.count = 0, !.failed = FALSE]
                                ELSE m.usage[c]],
                  !.last_reset = t,
                  !.did_reset = TRUE, !.reset_at = t, !.reset_by = by])

\* _check_daily_reset at time t
SSOManager_check_daily_reset(m, t) ==
    IF m.last_reset = 0 THEN [m EXCEPT !.last_reset = t]
    ELSE IF t - m.last_reset >= RESET_INTERVAL THEN SSOManager_do_daily_reset(m, t, "check")
    ELSE m

\* _load_state that reads the reset epoch and the cursor but restores no usage
Mutant_load_state_no_restore(m, t) ==
    IF ~m.file.exists THEN m
    ELSE LET m1 == [m EXCEPT !.last_reset = m.file.last_reset,
                             !.current_index = m.file.current_index]
         IN IF t - m1.last_reset >= RESET_INTERVAL
            THEN SSOManager_do_daily_reset(m1, t, "load")
            ELSE m1

\* _load_state at time t
SSOManager_load_state(m, t) ==
    IF ~m.file.exists THEN m
    ELSE LET m1 == [m EXCEPT !.last_reset = m.file.last_reset,
                             !.current_index = m.file.current_index]
         IN IF t - m1.last_reset >= RESET_INTERVAL
            THEN SSOManager_do_daily_reset(m1, t, "load")
            ELSE [m1 EXCEPT !.usage = [c \in DOMAIN m1.usage |->
                        IF c \in Range(m1.sso_list) /\ c \in DOMAIN m1.file.usage
                        THEN m1.file.usage[c] ELSE m1.usage[c]]]

\* load_sso_list at time t from the source file's lines
SSOManager_load_sso_list(m, lines, t) ==
    LET lst == ParseSsoFile(lines)
        m1 == [m EXCEPT !.sso_list = lst,
                        !.usage = [c \in DOMAIN m.usage \cup Range(lst) |->
                                      IF c \in DOMAIN m.usage THEN m.usage[c]
                                      ELSE KeyUsage]]
    IN SSOManager_load_state(m1, t)

\* _get_available_keys without its quota test
Mutant_get_available_keys_no_quota(m, limit) ==
    SeqFilter(m.sso_list,
              {c \in Range(m.sso_list) : ~UsageGet(m.usage, c).failed})

\* _get_available_keys
SSOManager_get_available_keys(m, limit) ==
    SeqFilter(m.sso_list,
              {c \in Range(m.sso_list) :
                  ~UsageGet(m.usage, c).failed /\ UsageGet(m.usage, c).count < limit})

\* the outcome of a selection: the manager afterwards, the value returned and
\* the branch taken
Outcome(m, ret, branch) == [m |-> m, ret |-> ret, branch |-> branch]

\* _handle_all_exhausted
SSOManager_handle_all_exhausted(m) ==
    LET all_failed == \A i \in 1..Len(m.sso_list) :
                          UsageGet(m.usage, m.sso_list[i]).failed
    IN IF all_failed
       THEN LET m1 == SSOManager_save_state(
                        [m EXCEPT !.usage = [c \in DOMAIN m.usage |->
                                    IF c \in Range(m.sso_list)
                                    THEN [m.usage[c] EXCEPT !.failed = FALSE]
                                    ELSE m.usage[c]]])
            IN {Outcome(m1, IF m.sso_list /= <<>> THEN m.sso_list[1] ELSE None,
                        "recovery")}
       ELSE {Outcome(m, None, "exhausted")}

\* _get_round_robin that leaves _current_index where it was
Mutant_get_round_robin_no_advance(m, limit) ==
    LET available == SSOManager_get_available_keys(m, limit)
    IN IF available = <<>> THEN SSOManager_handle_all_exhausted(m)
       ELSE {Outcome(m, available[(m.current_index % Len(available)) + 1], "selected")}

\* _get_round_robin
SSOManager_get_round_robin(m, limit) ==
    LET available == SSOManager_get_available_keys(m, limit)
    IN IF available = <<>> THEN SSOManager_handle_all_exhausted(m)
       ELSE LET idx == m.current_index % Len(available)
            IN {Outcome([m EXCEPT !.current_index = (idx + 1) % Len(available)],
                        available[idx + 1], "selected")}

\* the first element of available that minimises key (strict < keeps the first)
FirstMin(available, key) ==
    LET best == CHOOSE i \in 1..Len(available) :
                   /\ \A j \in 1..Len(available) : key[available[i]] <= key[available[j]]
                   /\ \A j \in 1..(i - 1) : key[available[j]] > key[available[i]]
    IN available[best]

\* _get_least_used
SSOManager_get_least_used(m, limit) ==
    LET available == SSOManager_get_available_keys(m, limit)
        count == [c \in Range(available) |-> UsageGet(m.usage, c).count]
    IN IF available = <<>> THEN SSOManager_handle_all_exhausted(m)
       ELSE {Outcome(m, FirstMin(available, count), "selected")}

\* _get_least_recent
SSOManager_get_least_recent(m, limit) ==
    LET available == SSOManager_get_available_keys(m, limit)
        last_used == [c \in Range(available) |-> UsageGet(m.usage, c).last_used]
    IN IF available = <<>> THEN SSOManager_handle_all_exhausted(m)
       ELSE {Outcome(m, FirstMin(available, last_used), "selected")}

\* _get_weighted: every weight is max(1, remaining) > 0, so random.uniform
\* can land on any available key
SSOManager_get_weighted(m, limit) ==
    LET available == SSOManager_get_available_keys(m, limit)
    IN IF available = <<>> THEN SSOManager_handle_all_exhausted(m)
       ELSE {Outcome(m, available[i], "selected") : i \in 1..Len(available)}

\* a hybrid score that gives a never-used credential no time factor
Mutant_HybridScore_never_used_last(u, limit, t) ==
    (limit - u.count) *
        (600 + (IF u.last_used = 0 THEN 0 ELSE Min(6000, t - u.last_used)))

\* the hybrid score times 600: remaining * (1 + time_factor), where
\* time_factor = 10 if never used, else min(10, (t - last_used) / 60 * 0.1)
HybridScore(u, limit, t) ==
    (limit - u.count) *
        (600 + (IF u.last_used = 0 THEN 6000 ELSE Min(6000, t - u.last_used)))

\* _get_hybrid at time t (score > best_score keeps the first maximum)
SSOManager_get_hybrid(m, limit, t) ==
    LET available == SSOManager_get_available_keys(m, limit)
        negscore == [c \in Range(available) |-> 0 - HybridScore(UsageGet(m.usage, c), limit, t)]
    IN IF available = <<>> THEN SSOManager_handle_all_exhausted(m)
       ELSE {Outcome(m, FirstMin(available, negscore), "selected")}

\* the strategy dispatch of get_next_sso
SSOManager_select(m, strat, limit, t) ==
    IF strat = "round_robin" THEN SSOManager_get_round_robin(m, limit)
    ELSE IF strat = "least_used" THEN SSOManager_get_least_used(m, limit)
    ELSE IF strat = "least_recent" THEN SSOManager_get_least_recent(m, limit)
    ELSE IF strat = "weighted" THEN SSOManager_get_weighted(m, limit)
    ELSE SSOManager_get_hybrid(m, limit, t)

\* a get_next_sso that selects first and checks the daily reset afterwards
Mutant_next_outcomes_select_first(m, lines, strat, limit, t) ==
    LET m1 == IF m.sso_list = <<>> THEN SSOManager_load_sso_list(m, lines, t) ELSE m
    IN IF m1.sso_list = <<>> THEN {Outcome(m1, None, "empty")}
       ELSE {Outcome(SSOManager_check_daily_reset(r.m, t), r.ret, r.branch) :
                r \in SSOManager_select(m1, strat, limit, t)}

\* get_next_sso as a function of the manager: the set of possible outcomes
SSOManager_next_outcomes(m, lines, strat, limit, t) ==
    LET m1 == IF m.sso_list = <<>> THEN SSOManager_load_sso_list(m, lines, t) ELSE m
    IN IF m1.sso_list = <<>> THEN {Outcome(m1, None, "empty")}
       ELSE SSOManager_select(SSOManager_check_daily_reset(m1, t), strat, limit, t)

\* --------------------------------------------- SSOManager: operations ---
\* the observer record of a selection; Quiet after any other operation
Quiet == [name |-> "", ret |-> None, branch |-> ""]
Op(name, ret, branch) ==
    IF observe THEN [name |-> name, ret |-> ret, branch |-> branch] ELSE Quiet

\* the selectable credentials, in list order
Selectable(m) == SSOManager_get_available_keys(m, daily_limit)

\* the last n elements of s
LastN(s, n) == IF Len(s) <= n THEN s ELSE SubSeq(s, Len(s) - n + 1, Len(s))

\* observer (kept under round_robin only): the run of credentials selected
\* while the selectable list stayed the same, cut to one full cycle; a load
\* or reload (which rewinds the cursor) or a call that selects nothing
\* starts a new run
CycleAfterSelect(before, after, ret) ==
    IF strategy /= "round_robin" \/ ~observe THEN <<>>
    ELSE IF before = after THEN LastN(Append(cycle, ret), Len(after)) ELSE <<ret>>

CycleAfterOther(before, after) == IF before = after THEN cycle ELSE <<>>

\* an operation starts with the observer flag did_reset lowered
Begin(m) == [m EXCEPT !.did_reset = FALSE]

\* observer: while the operations performed so far are get_next_sso calls each
\* followed by record_usage of the credential it returned (the way generate()
\* uses the pool on success), rets lists what the calls returned; pending
\* says that the last one is not recorded yet.  Any other operation, and a
\* call after one that returned nothing, ends the run.
TrailOff == [paired |-> FALSE, pending |-> FALSE, rets |-> <<>>]
TrailStart == [paired |-> TRUE, pending |-> FALSE, rets |-> <<>>]
TrailAfterSelect(ret) ==
    IF trail.paired /\ ~trail.pending
          /\ (trail.rets = <<>> \/ trail.rets[Len(trail.rets)] /= None)
    THEN [paired |-> TRUE, pending |-> ret /= None, rets |-> Append(trail.rets, ret)]
    ELSE TrailOff
TrailAfterRecord(sso) ==
    IF trail.paired /\ trail.pending /\ sso = trail.rets[Len(trail.rets)]
    THEN [trail EXCEPT !.pending = FALSE]
    ELSE TrailOff
TrailAfterLoad == IF trail.rets = <<>> THEN trail ELSE TrailOff

\* load_sso_list(), as called at startup
SSOManager_load ==
    /\ fm' = SSOManager_load_sso_list(Begin(fm), ssoFile, now)
    /\ op' = Quiet
    /\ trail' = TrailAfterLoad
    /\ cycle' = <<>>
    /\ UNCHANGED <<envVars, now, nonFileVars>>

\* get_next_sso()
SSOManager_get_next_sso ==
    /\ \E r \in SSOManager_next_outcomes(Begin(fm), ssoFile, strategy, daily_limit, now) :
          /\ fm' = r.m
          /\ op' = Op("get_next_sso", r.ret, r.branch)
          /\ trail' = TrailAfterSelect(r.ret)
          /\ cycle' = IF r.branch = "selected" /\ fm.sso_list /= <<>>
                       THEN CycleAfterSelect(Selectable(fm), Selectable(r.m), r.ret)
                       ELSE <<>>
    /\ UNCHANGED <<envVars, now, nonFileVars>>

\* a record_usage that records nothing
Mutant_do_record_usage_nothing(m, sso, t) == m

\* the body of record_usage at time t
SSOManager_do_record_usage(m, sso, t) ==
    LET u == UsageGet(m.usage, sso)
    IN SSOManager_save_state(
           [m EXCEPT !.usage = UsagePut(m.usage, sso,
                [u EXCEPT !.count = u.count + 1, !.last_used = t])])

\* a mark_failed that marks nothing
Mutant_do_mark_failed_nothing(m, sso) == m

\* the body of mark_failed
SSOManager_do_mark_failed(m, sso) ==
    SSOManager_save_state(
        [m EXCEPT !.usage = UsagePut(m.usage, sso,
             [UsageGet(m.usage, sso) EXCEPT !.failed = TRUE])])

\* get_status: total_keys, failed_count (counted over every entry of _usage)
\* and the failed flag of each entry of "keys"
SSOManager_get_status(m) ==
    [total_keys |-> Len(m.sso_list),
     failed_count |-> Cardinality({c \in DOMAIN m.usage : m.usage[c].failed}),
     keys |-> [i \in 1..Len(m.sso_list) |-> UsageGet(m.usage, m.sso_list[i]).failed]]

\* the body of mark_success
SSOManager_do_mark_success(m, sso) ==
    IF sso \in DOMAIN m.usage
    THEN SSOManager_save_state([m EXCEPT !.usage[sso].failed = FALSE])
    ELSE m

\* get_age_verified
SSOManager_get_age_verified(m, sso) ==
    IF sso \in DOMAIN m.usage THEN m.usage[sso].age_verified ELSE 0

\* a set_age_verified that stores nothing
Mutant_do_set_age_verified_nothing(m, sso) == m

\* the body of set_age_verified(sso, 1)
SSOManager_do_set_age_verified(m, sso) ==
    SSOManager_save_state(
        [m EXCEPT !.usage = UsagePut(m.usage, sso,
             [UsageGet(m.usage, sso) EXCEPT !.age_verified = 1])])

\* record_usage(sso)
SSOManager_record_usage(sso) ==
    /\ UsageGet(fm.usage, sso).count < MaxLimit
    /\ fm' = SSOManager_do_record_usage(Begin(fm), sso, now)
    /\ op' = Quiet
    /\ trail' = TrailAfterRecord(sso)
    /\ cycle' = CycleAfterOther(Selectable(fm), Selectable(fm'))
    /\ UNCHANGED <<envVars, now, nonFileVars>>

\* mark_failed(sso, reason)
SSOManager_mark_failed(sso) ==
    /\ fm' = SSOManager_do_mark_failed(Begin(fm), sso)
    /\ op' = Quiet
    /\ trail' = TrailOff
    /\ cycle' = CycleAfterOther(Selectable(fm), Selectable(fm'))
    /\ UNCHANGED <<envVars, now, nonFileVars>>

\* mark_success(sso)
SSOManager_mark_success(sso) ==
    /\ fm' = SSOManager_do_mark_success(Begin(fm), sso)
    /\ op' = Quiet
    /\ trail' = TrailOff
    /\ cycle' = CycleAfterOther(Selectable(fm), Selectable(fm'))
    /\ UNCHANGED <<envVars, now, nonFileVars>>

\* set_age_verified(sso, 1): the only value the program passes
SSOManager_set_age_verified(sso) ==
    /\ fm' = SSOManager_do_set_age_verified(Begin(fm), sso)
    /\ op' = Quiet
    /\ trail' = TrailOff
    /\ cycle' = CycleAfterOther(Selectable(fm), Selectable(fm'))
    /\ UNCHANGED <<envVars, now, nonFileVars>>

\* reload(): the returned count is the length of the new list
SSOManager_reload ==
    /\ fm' = SSOManager_load_sso_list(
                 [Begin(fm) EXCEPT !.usage = EmptyUsage, !.current_index = 0],
                 ssoFile, now)
    /\ op' = Quiet
    /\ trail' = TrailOff
    /\ cycle' = <<>>
    /\ UNCHANGED <<envVars, now, nonFileVars>>

\* reset_daily_usage()
SSOManager_reset_daily_usage ==
    /\ fm' = SSOManager_do_daily_reset(Begin(fm), now, "manual")
    /\ op' = Quiet
    /\ trail' = TrailOff
    /\ cycle' = CycleAfterOther(Selectable(fm), Selectable(fm'))
    /\ UNCHANGED <<envVars, now, nonFileVars>>

\* ============================================== RedisSSOManager: state ===
\* a usage hash sso:usage:{hash}; a missing hash or field reads as 0, which
\* is also what initialize's hsetnx writes, so every hash is kept total
RedisUsage == [count |-> 0, last_used |-> 0, age_verified |-> 0]

\* every credential an operation may name
AllCreds == Range(KeyNames) \cup {Pinned}

\* app/api/admin.py builds a RedisSSOManager of its own with
\* create_sso_manager(), as app/services/grok_client.py does: its _sso_list,
\* its _initialized, and whether a reload() call of it is inside its lock
AdminManager == [sso_list |-> <<>>, initialized |-> FALSE, reloading |-> FALSE]

\* the generation client's manager object (sso_list, initialized), the admin
\* routes' manager object (admin), and the Redis keys both use: sso:keys,
\* sso:failed, the usage hashes, sso:index and sso:daily_reset (<<>> while
\* the key does not exist)
RedisSSOManager_init ==
    [sso_list |-> <<>>, initialized |-> FALSE, admin |-> AdminManager, keys |-> {}, failed |-> {},
     usage |-> [c \in AllCreds |-> RedisUsage], index |-> 0, daily_reset |-> <<>>]

\* r.hset(usage_key, "count", 0)
Redis_hset_count_zero(m, sso) == [m EXCEPT !.usage[sso].count = 0]

\* r.delete(FAILED_SET)
Redis_delete_failed(m) == [m EXCEPT !.failed = {}]

\* r.set(DAILY_RESET_KEY, t)
Redis_set_daily_reset(m, t) == [m EXCEPT !.daily_reset = <<t>>]

\* the loop "for sso in self._sso_list: hset count 0" from position i on
RECURSIVE Redis_reset_counts(_, _)
Redis_reset_counts(m, i) ==
    IF i > Len(m.sso_list) THEN m
    ELSE Redis_reset_counts(Redis_hset_count_zero(m, m.sso_list[i]), i + 1)

\* the test of _check_daily_reset on a stamp read earlier
Redis_reset_due(stamp, t) == stamp /= <<>> /\ t - stamp[1] >= RESET_INTERVAL

\* _check_daily_reset at time t, run without interruption
RedisSSOManager_check_daily_reset(m, t) ==
    IF m.daily_reset = <<>> THEN Redis_set_daily_reset(m, t)
    ELSE IF Redis_reset_due(m.daily_reset, t)
         THEN Redis_set_daily_reset(Redis_delete_failed(Redis_reset_counts(m, 1)), t)
         ELSE m

\* initialize() at time t, run without interruption
RedisSSOManager_initialized(m, lines, t) ==
    IF m.initialized THEN m
    ELSE LET m1 == [m EXCEPT !.sso_list = ParseSsoFile(lines)]
         IN IF m1.sso_list = <<>> THEN m1
            ELSE [RedisSSOManager_check_daily_reset(m1, t)
                     EXCEPT !.keys = Range(m1.sso_list), !.initialized = TRUE]

\* _get_available_keys
RedisSSOManager_get_available_keys(m, limit) ==
    SeqFilter(m.sso_list,
              {c \in Range(m.sso_list) : c \notin m.failed /\ m.usage[c].count < limit})

\* _handle_all_exhausted: the sizes of the failed set and of the list are
\* compared
RedisSSOManager_handle_all_exhausted(m) ==
    IF Cardinality(m.failed) = Len(m.sso_list)
    THEN {Outcome(Redis_delete_failed(m),
                  IF m.sso_list /= <<>> THEN m.sso_list[1] ELSE None, "recovery")}
    ELSE {Outcome(m, None, "exhausted")}

\* _get_round_robin: incr returns the new value of sso:index
RedisSSOManager_get_round_robin(m, limit) ==
    LET available == RedisSSOManager_get_available_keys(m, limit)
        index == m.index + 1
    IN IF available = <<>> THEN RedisSSOManager_handle_all_exhausted(m)
       ELSE {Outcome([m EXCEPT !.index = index],
                     available[((index - 1) % Len(available)) + 1], "selected")}

\* _get_least_used
RedisSSOManager_get_least_used(m, limit) ==
    LET available == RedisSSOManager_get_available_keys(m, limit)
        count == [c \in Range(available) |-> m.usage[c].count]
    IN IF available = <<>> THEN RedisSSOManager_handle_all_exhausted(m)
       ELSE {Outcome(m, FirstMin(available, count), "selected")}

\* _get_least_recent
RedisSSOManager_get_least_recent(m, limit) ==
    LET available == RedisSSOManager_get_available_keys(m, limit)
        last_used == [c \in Range(available) |-> m.usage[c].last_used]
    IN IF available = <<>> THEN RedisSSOManager_handle_all_exhausted(m)
       ELSE {Outcome(m, FirstMin(available, last_used), "selected")}

\* _get_weighted
RedisSSOManager_get_weighted(m, limit) ==
    LET available == RedisSSOManager_get_available_keys(m, limit)
    IN IF available = <<>> THEN RedisSSOManager_handle_all_exhausted(m)
       ELSE {Outcome(m, available[i], "selected") : i \in 1..Len(available)}

\* _get_hybrid at time t
RedisSSOManager_get_hybrid(m, limit, t) ==
    LET available == RedisSSOManager_get_available_keys(m, limit)
        negscore == [c \in Range(available) |-> 0 - HybridScore(m.usage[c], limit, t)]
    IN IF available = <<>> THEN RedisSSOManager_handle_all_exhausted(m)
       ELSE {Outcome(m, FirstMin(available, negscore), "selected")}

\* the strategy dispatch of get_next_sso
RedisSSOManager_select(m, strat, limit, t) ==
    IF strat = "round_robin" THEN RedisSSOManager_get_round_robin(m, limit)
    ELSE IF strat = "least_used" THEN RedisSSOManager_get_least_used(m, limit)
    ELSE IF strat = "least_recent" THEN RedisSSOManager_get_least_recent(m, limit)
    ELSE IF strat = "weighted" THEN RedisSSOManager_get_weighted(m, limit)
    ELSE RedisSSOManager_get_hybrid(m, limit, t)

\* get_next_sso run without interruption: the set of possible outcomes
RedisSSOManager_next_outcomes(m, lines, strat, limit, t) ==
    LET m1 == RedisSSOManager_initialized(m, lines, t)
    IN IF m1.sso_list = <<>> THEN {Outcome(m1, None, "empty")}
       ELSE RedisSSOManager_select(RedisSSOManager_check_daily_reset(m1, t),
                                   strat, limit, t)

\* ========================================= RedisSSOManager: operations ===
\* the selectable credentials, in list order
RedisSelectable(m) == RedisSSOManager_get_available_keys(m, daily_limit)

\* sso:index grows without limit in the program; the model stops selecting
\* once it has been incremented MaxIndex times
MaxIndex == 3 * MaxLimit + 2

\* initialize()
RedisSSOManager_initialize ==
    /\ rm' = RedisSSOManager_initialized(rm, ssoFile, now)
    /\ op' = Quiet
    /\ cycle' = <<>>
    /\ trail' = TrailAfterLoad
    /\ UNCHANGED <<envVars, now, nonRedisVars, rc>>

\* get_next_sso(), run without interruption
RedisSSOManager_get_next_sso ==
    /\ rm.index < MaxIndex
    /\ \E r \in RedisSSOManager_next_outcomes(rm, ssoFile, strategy, daily_limit, now) :
          /\ rm' = r.m
          /\ op' = Op("get_next_sso", r.ret, r.branch)
          /\ cycle' = IF r.branch = "selected" /\ rm.initialized
                       THEN CycleAfterSelect(RedisSelectable(rm), RedisSelectable(r.m), r.ret)
                       ELSE <<>>
          /\ trail' = TrailAfterSelect(r.ret)
    /\ UNCHANGED <<envVars, now, nonRedisVars, rc>>

\* record_usage(sso)
RedisSSOManager_record_usage(sso) ==
    /\ rm.usage[sso].count < MaxLimit
    /\ rm' = [rm EXCEPT !.usage[sso].count = @ + 1, !.usage[sso].last_used = now]
    /\ op' = Quiet
    /\ cycle' = CycleAfterOther(RedisSelectable(rm), RedisSelectable(rm'))
    /\ trail' = TrailAfterRecord(sso)
    /\ UNCHANGED <<envVars, now, nonRedisVars, rc>>

\* mark_failed(sso, reason)
RedisSSOManager_mark_failed(sso) ==
    /\ rm' = [rm EXCEPT !.failed = @ \cup {sso}]
    /\ op' = Quiet
    /\ cycle' = CycleAfterOther(RedisSelectable(rm), RedisSelectable(rm'))
    /\ trail' = TrailOff
    /\ UNCHANGED <<envVars, now, nonRedisVars, rc>>

\* mark_success(sso)
RedisSSOManager_mark_success(sso) ==
    /\ rm' = [rm EXCEPT !.failed = @ \ {sso}]
    /\ op' = Quiet
    /\ cycle' = CycleAfterOther(RedisSelectable(rm), RedisSelectable(rm'))
    /\ trail' = TrailOff
    /\ UNCHANGED <<envVars, now, nonRedisVars, rc>>

\* set_age_verified(sso, 1)
RedisSSOManager_set_age_verified(sso) ==
    /\ rm' = [rm EXCEPT !.usage[sso].age_verified = 1]
    /\ op' = Quiet
    /\ cycle' = cycle
    /\ trail' = TrailOff
    /\ UNCHANGED <<envVars, now, nonRedisVars, rc>>

\* reset_daily_usage(), run without interruption
RedisSSOManager_reset_daily_usage ==
    /\ rm' = Redis_set_daily_reset(Redis_delete_failed(Redis_reset_counts(rm, 1)), now)
    /\ op' = Quiet
    /\ cycle' = CycleAfterOther(RedisSelectable(rm), RedisSelectable(rm'))
    /\ trail' = TrailOff
    /\ UNCHANGED <<envVars, now, nonRedisVars, rc>>

\* ------------------- get_next_sso, one Redis command at a time ---
\* two coroutines (or processes) share the store; each await of
\* _check_daily_reset is a step of its own, the selection after it is taken
\* in one step
Coroutines == {"a", "b"}

Idle == [pc |-> "idle", now |-> 0, i |-> 0]

\* now = int(time.time()); last_reset = await r.get(DAILY_RESET_KEY), and the
\* tests made on the value read.  initialize() has stamped the store under
\* the lock before any caller gets here, so the value read is never None.
RedisSSOManager_read_stamp(p) ==
    /\ rc[p].pc = "idle"
    /\ rm.initialized
    /\ rm.daily_reset /= <<>>
    /\ rc' = [rc EXCEPT ![p] =
                 [pc |-> IF Redis_reset_due(rm.daily_reset, now) THEN "reset_counts"
                         ELSE "select",
                  now |-> now, i |-> 1]]
    /\ UNCHANGED <<rm, envVars, now, nonRedisVars, obsVars>>

\* await r.hset(usage_key, "count", 0) for the next credential of the list
RedisSSOManager_reset_count(p) ==
    /\ rc[p].pc = "reset_counts"
    /\ rm' = Redis_hset_count_zero(rm, rm.sso_list[rc[p].i])
    /\ rc' = [rc EXCEPT ![p].i = @ + 1,
                        ![p].pc = IF rc[p].i = Len(rm.sso_list)
                                  THEN "reset_failed" ELSE "reset_counts"]
    /\ UNCHANGED <<envVars, now, nonRedisVars, obsVars>>

\* await r.delete(FAILED_SET)
RedisSSOManager_reset_failed(p) ==
    /\ rc[p].pc = "reset_failed"
    /\ rm' = Redis_delete_failed(rm)
    /\ rc' = [rc EXCEPT ![p].pc = "reset_stamp"]
    /\ UNCHANGED <<envVars, now, nonRedisVars, obsVars>>

\* await r.set(DAILY_RESET_KEY, now) that ends the reset
RedisSSOManager_reset_stamp(p) ==
    /\ rc[p].pc = "reset_stamp"
    /\ rm' = Redis_set_daily_reset(rm, rc[p].now)
    /\ rc' = [rc EXCEPT ![p].pc = "select"]
    /\ UNCHANGED <<envVars, now, nonRedisVars, obsVars>>

\* the strategy's selection; get_next_sso returns
RedisSSOManager_selects(p) ==
    /\ rc[p].pc = "select"
    /\ rm.index < MaxIndex
    /\ \E r \in RedisSSOManager_select(rm, strategy, daily_limit, now) :
          /\ rm' = r.m
          /\ op' = Op("get_next_sso", r.ret, r.branch)
    /\ rc' = [rc EXCEPT ![p] = Idle]
    /\ cycle' = <<>>
    /\ trail' = TrailOff
    /\ UNCHANGED <<envVars, now, nonRedisVars>>

\* --------------------------- reload and initialize under self._lock ---
\* a coroutine inside reload() or get_next_sso(): where it stands, which of
\* the two it was called as, whether it is inside reload's "async with
\* self._lock", the credential get_next_sso() returned and the count
\* reload() returned
Unlocked == [pc |-> "idle", caller |-> "", holds |-> FALSE, ret |-> None, loaded |-> 0]

\* asyncio.Lock.locked(): reload's block is the only one a coroutine stays
\* in across awaits of other coroutines' steps; initialize's block is taken
\* and left within one step
Lock_locked == \E p \in Coroutines : rc[p].holds

\* get_next_sso() from "if not self._sso_list" on, on an initialized or
\* empty manager
RedisSSOManager_after_initialize(m, strat, limit, t) ==
    IF m.sso_list = <<>> THEN {Outcome(m, None, "empty")}
    ELSE RedisSSOManager_select(RedisSSOManager_check_daily_reset(m, t), strat, limit, t)

\* a caller (the admin route) enters reload() and reaches "async with self._lock"
RedisSSOManager_reload_called(p) ==
    /\ rc[p].pc = "idle"
    /\ rc' = [rc EXCEPT ![p] = [Unlocked EXCEPT !.pc = "reload", !.caller = "reload"]]
    /\ UNCHANGED <<rm, envVars, now, nonRedisVars, obsVars>>

\* reload() takes the lock, forgets the list, deletes sso:keys and reaches
\* "await self.initialize()" with the lock held
RedisSSOManager_reload_locked(p) ==
    /\ rc[p].pc = "reload"
    /\ ~Lock_locked
    /\ rm' = [rm EXCEPT !.initialized = FALSE, !.sso_list = <<>>, !.keys = {}]
    /\ rc' = [rc EXCEPT ![p].pc = "initialize", ![p].holds = TRUE]
    /\ UNCHANGED <<envVars, now, nonRedisVars, obsVars>>

\* a caller enters get_next_sso(): "if not self._initialized: await
\* self.initialize()"
RedisSSOManager_get_next_sso_called(p) ==
    /\ rc[p].pc = "idle"
    /\ rc' = [rc EXCEPT ![p] = [Unlocked EXCEPT
                 !.pc = IF rm.initialized THEN "select" ELSE "initialize",
                 !.caller = "get_next_sso"]]
    /\ UNCHANGED <<rm, envVars, now, nonRedisVars, obsVars>>

\* initialize() takes the lock, runs and releases it.  asyncio.Lock is not
\* reentrant: a coroutine that holds the lock waits here like any other.
\* On return reload() leaves its own block with the count; get_next_sso()
\* goes on
RedisSSOManager_initialize_locked(p) ==
    /\ rc[p].pc = "initialize"
    /\ ~Lock_locked
    /\ rm' = RedisSSOManager_initialized(rm, ssoFile, now)
    /\ rc' = IF rc[p].caller = "reload"
             THEN [rc EXCEPT ![p].pc = "idle", ![p].holds = FALSE,
                             ![p].loaded = Len(rm'.sso_list)]
             ELSE [rc EXCEPT ![p].pc = "select"]
    /\ UNCHANGED <<envVars, now, nonRedisVars, obsVars>>

\* the rest of get_next_sso()
RedisSSOManager_get_next_sso_rest(p) ==
    /\ rc[p].pc = "select"
    /\ \E r \in RedisSSOManager_after_initialize(rm, strategy, daily_limit, now) :
          /\ rm' = r.m
          /\ rc' = [rc EXCEPT ![p].pc = "idle", ![p].ret = r.ret]
    /\ UNCHANGED <<envVars, now, nonRedisVars, obsVars>>

\* ------------------------------- the admin routes on the Redis backend ---
\* the Redis keys with the admin routes' manager object in the place of the
\* generation client's
Admin_view(m) ==
    [m EXCEPT !.sso_list = m.admin.sso_list, !.initialized = m.admin.initialized]

\* the Redis keys and the admin object as a method of the admin object left
\* them in m1, beside the generation client's object as it is in m
Admin_put(m, m1) ==
    [m1 EXCEPT !.sso_list = m.sso_list, !.initialized = m.initialized,
               !.admin.sso_list = m1.sso_list, !.admin.initialized = m1.initialized]

\* POST /sso/reload: reload() takes the admin object's lock, clears
\* _initialized and _sso_list, deletes sso:keys and awaits initialize(),
\* which waits for the lock that reload() holds
Admin_reload_sso ==
    /\ backend = "redis"
    /\ ~rm.admin.reloading
    /\ rm' = [rm EXCEPT !.admin = [sso_list |-> <<>>, initialized |-> FALSE,
                                   reloading |-> TRUE],
                        !.keys = {}]
    /\ op' = Quiet
    /\ cycle' = <<>>
    /\ trail' = TrailOff
    /\ UNCHANGED <<envVars, now, nonRedisVars, rc>>

\* GET /status: get_status() runs initialize() on the admin object when it
\* is not initialized (and then waits for the lock while a reload() holds
\* it); on an initialized object it only reads
Admin_get_status ==
    /\ backend = "redis"
    /\ ~rm.admin.initialized /\ ~rm.admin.reloading
    /\ rm' = Admin_put(rm, RedisSSOManager_initialized(Admin_view(rm), ssoFile, now))
    /\ op' = Quiet
    /\ cycle' = <<>>
    /\ trail' = TrailOff
    /\ UNCHANGED <<envVars, now, nonRedisVars, rc>>

\* ====================================== GrokImagineClient._do_generate ===
\* One attempt.  Times are whole seconds since the attempt's start_time.  A
\* frame is its image id, the length of its blob and the extension of its
\* url; ImageProgress keeps the id, the stage, the length and is_final (blob
\* and url are not read again before the images are saved).
FINAL_MIN_SIZE == 100000
MEDIUM_MIN_SIZE == 30000
RECEIVE_TIMEOUT == 5
BLOCKED_AFTER_FRAME == 15
BLOCKED_AFTER_TIMEOUT == 10
IDLE_COMPLETE == 10

\* settings.GENERATION_TIMEOUT as configured for the model (default: 120)
GenerationTimeout == 16

BlobSizes == {MEDIUM_MIN_SIZE, MEDIUM_MIN_SIZE + 1, FINAL_MIN_SIZE, FINAL_MIN_SIZE + 1}
Exts == {"jpg", "png"}
ErrorCodes == {"rate_limit_exceeded", "unauthorized"}

\* a finality test that looks at the size only
Mutant_is_final_image_by_size(ext, blob_size) == blob_size > FINAL_MIN_SIZE

\* _is_final_image
GrokClient_is_final_image(ext, blob_size) == ext = "jpg" /\ blob_size > FINAL_MIN_SIZE

\* the stage given to a frame
GrokClient_stage(ext, blob_size) ==
    IF GrokClient_is_final_image(ext, blob_size) THEN "final"
    ELSE IF blob_size > MEDIUM_MIN_SIZE THEN "medium"
    ELSE "preview"

\* ImageProgress(...) built from a frame
ImageProgress(id, ext, blob_size) ==
    [image_id |-> id, stage |-> GrokClient_stage(ext, blob_size),
     blob_size |-> blob_size, is_final |-> GrokClient_is_final_image(ext, blob_size)]

\* preview < medium < final
StageRank(stage) == IF stage = "preview" THEN 0 ELSE IF stage = "medium" THEN 1 ELSE 2

NoCall == [image_id |-> None, ext |-> "", stage |-> "", raised |-> FALSE]
NoEvent == [kind |-> "", id |-> None]
NoResult == [kind |-> "", via |-> ""]

\* the locals of _do_generate when the receive loop is entered: progress
\* (images, in insertion order, and completed), error_info, last_activity and
\* medium_received_time (<<>> for None); t is the clock.  seen and cb are
\* observers: the message handled by the last step and the ImageProgress the
\* stream callback was called with in that step (its id, the extension of its
\* url and its stage), with whether it raised.
GrokClient_start(n, ids) ==
    [n |-> n, ids |-> ids, pc |-> "loop", t |-> 0,
     order |-> <<>>, images |-> [i \in {} |-> NoCall], completed |-> 0,
     error_info |-> None, last_activity |-> 0, medium_received_time |-> <<>>,
     result |-> NoResult, saved |-> <<>>, seen |-> NoEvent, cb |-> NoCall]

\* len([img for img in progress.images.values() if img.is_final])
GrokClient_completed(images) == Cardinality({i \in DOMAIN images : images[i].is_final})

\* GenerationProgress.check_blocked
GenerationProgress_check_blocked(images) ==
    /\ \E i \in DOMAIN images : images[i].stage = "medium"
    /\ ~\E i \in DOMAIN images : images[i].is_final

\* the update test that always passes
Mutant_accepts_always(images, id) == TRUE

\* "if not existing or (not existing.is_final)"
GrokClient_accepts(images, id) == id \notin DOMAIN images \/ ~images[id].is_final

\* the blocked test of the TEXT branch
GrokClient_blocked_on_frame(g) ==
    /\ g.medium_received_time /= <<>> /\ g.completed = 0
    /\ g.t - g.medium_received_time[1] > BLOCKED_AFTER_FRAME

\* the blocked test of the read-timeout branch with the TEXT branch's limit
Mutant_blocked_on_timeout_late(g) ==
    /\ g.medium_received_time /= <<>> /\ g.completed = 0
    /\ g.t - g.medium_received_time[1] > BLOCKED_AFTER_FRAME

\* the blocked test of the read-timeout branch
GrokClient_blocked_on_timeout(g) ==
    /\ g.medium_received_time /= <<>> /\ g.completed = 0
    /\ g.t - g.medium_received_time[1] > BLOCKED_AFTER_TIMEOUT

\* the attempt returns
Finish(g, kind, via) == [g EXCEPT !.pc = "done", !.result = [kind |-> kind, via |-> via]]

\* _save_final_images: the images sorted by (is_final, blob_size), largest
\* first, equal keys in insertion order
SortKey(img) == (IF img.is_final THEN 1000000 ELSE 0) + img.blob_size
SortedImages(g) ==
    LET ids == Range(g.order)
        pos(i) == CHOOSE p \in 1..Len(g.order) : g.order[p] = i
        before(i, j) == \/ SortKey(g.images[i]) > SortKey(g.images[j])
                        \/ SortKey(g.images[i]) = SortKey(g.images[j]) /\ pos(i) < pos(j)
    IN CHOOSE s \in [1..Len(g.order) -> ids] :
          \A a, b \in 1..Len(g.order) : a < b => before(s[a], s[b])

\* _save_final_images when exactly the images in ok can be decoded and
\* written: the ids saved, at most n
GrokClient_save_final_images(g, ok) ==
    LET written == SeqFilter(SortedImages(g), ok)
    IN IF Len(written) <= g.n THEN written ELSE SubSeq(written, 1, g.n)

\* the code after the receive loop, for every way the saves can turn out
GrokClient_after_loop(g) ==
    {LET saved == GrokClient_save_final_images(g, ok)
         g1 == [g EXCEPT !.saved = saved]
     IN IF saved /= <<>> THEN Finish(g1, "success", "loop_end")
        ELSE IF g.error_info /= None THEN Finish(g1, g.error_info, "loop_end")
        ELSE IF GenerationProgress_check_blocked(g.images)
             THEN Finish(g1, "blocked", "loop_end")
             ELSE Finish(g1, "no_data", "loop_end")
     : ok \in SUBSET Range(g.order)}

\* the end of a TEXT branch without the test for enough finals
Mutant_text_checks_no_completion(g) ==
    IF GrokClient_blocked_on_frame(g) THEN {Finish(g, "blocked", "frame")}
    ELSE {g}

\* the end of the TEXT branch: enough finals, then the blocked test
GrokClient_text_checks(g) ==
    IF g.completed >= g.n THEN GrokClient_after_loop(g)
    ELSE IF GrokClient_blocked_on_frame(g) THEN {Finish(g, "blocked", "frame")}
    ELSE {g}

\* a message or a read timeout arrives at time t
Arrive(g, t, kind, id) ==
    [g EXCEPT !.t = t, !.seen = [kind |-> kind, id |-> id], !.cb = NoCall]

\* what an awaited stream_callback can do: return, or raise an Exception
CallbackRaises == BOOLEAN

\* a callback call whose exception leaves the receive loop
Mutant_call_stream_callback_propagates(g, id, ext, stage, raised) ==
    LET g1 == [g EXCEPT !.cb = [image_id |-> id, ext |-> ext, stage |-> stage, raised |-> raised]]
    IN IF raised THEN Finish(g1, "callback_error", "frame") ELSE g1

\* "try: await stream_callback(img_progress, progress)
\*  except Exception: logger.warning(...)"
GrokClient_call_stream_callback(g, id, ext, stage, raised) ==
    [g EXCEPT !.cb = [image_id |-> id, ext |-> ext, stage |-> stage, raised |-> raised]]

\* a TEXT message of type image with a blob, a url and an image id
GrokClient_on_image(g, t, id, ext, blob_size) ==
    LET img == ImageProgress(id, ext, blob_size)
        g1 == [Arrive(g, t, "image", id) EXCEPT
                  !.last_activity = t,
                  !.medium_received_time =
                      IF img.stage = "medium" /\ @ = <<>> THEN <<t>> ELSE @]
        images == [i \in DOMAIN g.images \cup {id} |->
                      IF i = id THEN img ELSE g.images[i]]
        g2 == [g1 EXCEPT !.images = images,
                         !.order = IF id \in DOMAIN g.images THEN @ ELSE Append(@, id),
                         !.completed = GrokClient_completed(images)]
    IN IF GrokClient_accepts(g.images, id)
       THEN UNION {LET g3 == GrokClient_call_stream_callback(g2, id, ext, img.stage, raised)
                   IN IF g3.pc = "loop" THEN GrokClient_text_checks(g3) ELSE {g3}
                   : raised \in CallbackRaises}
       ELSE GrokClient_text_checks(g1)

\* a TEXT message of type image whose url carries no image id: continue
GrokClient_on_image_without_id(g, t) ==
    {[Arrive(g, t, "image_without_id", None) EXCEPT !.last_activity = t]}

\* any other TEXT message that is not an error (also an image without blob
\* or url)
GrokClient_on_text(g, t) ==
    GrokClient_text_checks([Arrive(g, t, "text", None) EXCEPT !.last_activity = t])

\* an error branch that returns the error whatever its code
Mutant_on_error_always_returns(g, t, code) ==
    {Finish([Arrive(g, t, "error", None) EXCEPT !.last_activity = t, !.error_info = code],
            code, "frame")}

\* a TEXT message of type error
GrokClient_on_error(g, t, code) ==
    LET g1 == [Arrive(g, t, "error", None) EXCEPT !.last_activity = t,
                                                     !.error_info = code]
    IN IF code = "rate_limit_exceeded" THEN {Finish(g1, code, "frame")}
       ELSE GrokClient_text_checks(g1)

\* a message that is neither TEXT nor CLOSED nor ERROR
GrokClient_on_other(g, t) == {Arrive(g, t, "other", None)}

\* CLOSED or ERROR: break
GrokClient_on_closed(g, t) == GrokClient_after_loop(Arrive(g, t, "closed", None))

\* a read-timeout branch without the idle-completion test
Mutant_on_timeout_keeps_waiting(g, t) ==
    LET g1 == Arrive(g, t, "timeout", None)
    IN IF GrokClient_blocked_on_timeout(g1) THEN {Finish(g1, "blocked", "timeout")}
       ELSE {g1}

\* asyncio.TimeoutError
GrokClient_on_timeout(g, t) ==
    LET g1 == Arrive(g, t, "timeout", None)
    IN IF GrokClient_blocked_on_timeout(g1) THEN {Finish(g1, "blocked", "timeout")}
       ELSE IF g1.completed > 0 /\ t - g1.last_activity > IDLE_COMPLETE
            THEN GrokClient_after_loop(g1)
            ELSE {g1}

\* no attempt is running
GenIdle == [GrokClient_start(1, {}) EXCEPT !.pc = "idle"]

\* --------------------------------------------------- the receive loop ---
nonGenVars == <<fm, rm, rc, clientVars, envVars, now, obsVars>>

\* the loop test passes and ws.receive() is awaited
Receiving == gen.pc = "loop" /\ gen.t < GenerationTimeout

\* the delays after which a message can arrive before the read times out
Delays == 0..(RECEIVE_TIMEOUT - 1)

ReceiveImage ==
    /\ Receiving
    /\ \E d \in Delays, id \in gen.ids, ext \in Exts, blob_size \in BlobSizes :
          gen' \in GrokClient_on_image(gen, gen.t + d, id, ext, blob_size)
    /\ UNCHANGED nonGenVars

ReceiveImageWithoutId ==
    /\ Receiving
    /\ \E d \in Delays : gen' \in GrokClient_on_image_without_id(gen, gen.t + d)
    /\ UNCHANGED nonGenVars

ReceiveText ==
    /\ Receiving
    /\ \E d \in Delays : gen' \in GrokClient_on_text(gen, gen.t + d)
    /\ UNCHANGED nonGenVars

ReceiveError ==
    /\ Receiving
    /\ \E d \in Delays, code \in ErrorCodes :
          gen' \in GrokClient_on_error(gen, gen.t + d, code)
    /\ UNCHANGED nonGenVars

ReceiveOther ==
    /\ Receiving
    /\ \E d \in Delays : gen' \in GrokClient_on_other(gen, gen.t + d)
    /\ UNCHANGED nonGenVars

ReceiveClosed ==
    /\ Receiving
    /\ \E d \in Delays : gen' \in GrokClient_on_closed(gen, gen.t + d)
    /\ UNCHANGED nonGenVars

ReceiveTimeout ==
    /\ Receiving
    /\ gen' \in GrokClient_on_timeout(gen, gen.t + RECEIVE_TIMEOUT)
    /\ UNCHANGED nonGenVars

\* the loop test fails: GENERATION_TIMEOUT has passed
LoopTimeout ==
    /\ gen.pc = "loop" /\ gen.t >= GenerationTimeout
    /\ gen' \in GrokClient_after_loop([gen EXCEPT !.seen = NoEvent, !.cb = NoCall])
    /\ UNCHANGED nonGenVars

\* ========================================= GrokImagineClient.generate ===
\* One generate() call over the file-backed pool.  An attempt's protocol
\* drive (_do_generate) is taken by its outcome: what it returns, or that it
\* raises.  A step of the model runs from one await on the pool or the
\* protocol to the next.
\* generate()'s default max_retries is drawn up to MaxRetries
MaxRetries == 5
MAX_BLOCKED_RETRIES == 3

\* an error frame's err_code that generate() does not single out
OtherCode == "content_moderated"
\* what _do_generate returns: success; blocked; an error frame's code; no
\* image data; a transport failure (aiohttp.ClientError)
ReturnKinds == {"success", "blocked", "no_data", "connection_failed", OtherCode} \cup ErrorCodes
\* ... or it raises something that is not an aiohttp.ClientError (a
\* connect timeout, json.loads on a malformed frame)
Raises == "raises"
DriveOutcomes == ReturnKinds \cup {Raises}

\* a result dict: success, error_code ("" when the key is absent), and the
\* kind of its error text
Result(success, code, error) == [success |-> success, error_code |-> code, error |-> error]
NoError == Result(FALSE, "", "")
\* the dict _do_generate returns for a kind
DriveResult(kind) ==
    IF kind = "success" THEN Result(TRUE, "", "")
    ELSE IF kind \in {"blocked", OtherCode} \cup ErrorCodes THEN Result(FALSE, kind, kind)
    ELSE Result(FALSE, "", kind)

\* a source file whose open() or decoding raises (load_sso_list reads it
\* outside any try)
Undecodable == "?"
UnreadableFile == <<Undecodable>>
Unreadable(lines) == Undecodable \in Range(lines)

\* the locals of generate(): sso (None when not pinned), max_retries,
\* attempt, current_sso, blocked_retries, last_error (NoError for None) and
\* the value returned.  pc is the await the call is at: "select" (line 202),
\* "verify" (208-215), "drive" (218), or how it ended.  drives, step and
\* outcome are observers: the protocol drives started, the step taken last
\* and the outcome of the last drive.
CallIdle ==
    [pc |-> "idle", sso |-> None, max_retries |-> 0, attempt |-> 0,
     current_sso |-> None, blocked_retries |-> 0, last_error |-> NoError,
     result |-> NoError, drives |-> 0, step |-> "", outcome |-> "", verify |-> ""]

\* return value
Return(c, result) == [c EXCEPT !.pc = "returned", !.result = result]

\* a loop that never runs out of iterations
Mutant_next_attempt_unbounded(c) == [c EXCEPT !.attempt = c.attempt + 1, !.pc = "select"]

\* "for attempt in range(max_retries)": the next iteration, or the return
\* after the loop
GrokClient_next_attempt(c) ==
    IF c.attempt + 1 < c.max_retries
    THEN [c EXCEPT !.attempt = c.attempt + 1, !.pc = "select"]
    ELSE Return(c, IF c.last_error /= NoError THEN c.last_error
                   ELSE Result(FALSE, "", "all_retries_failed"))

\* generate() is entered
GrokClient_generate_start(sso, max_retries) ==
    LET c == [CallIdle EXCEPT !.sso = sso, !.max_retries = max_retries]
    IN IF max_retries = 0 THEN Return(c, Result(FALSE, "", "all_retries_failed"))
       ELSE [c EXCEPT !.pc = "select"]

\* handling of an attempt's outcome that retries whenever it does not succeed
Mutant_after_drive_always_retries(c, m, kind, t) ==
    LET c1 == [c EXCEPT !.step = "drive", !.outcome = kind]
    IN IF kind = "success" THEN [c |-> Return(c1, DriveResult(kind)), m |-> m]
       ELSE [c |-> GrokClient_next_attempt(c1), m |-> m]

\* the code after _do_generate for an outcome: the call and the pool after it
GrokClient_after_drive(c, m, kind, t) ==
    LET cur == c.current_sso
        pinned == c.sso /= None
        res == DriveResult(kind)
        c1 == [c EXCEPT !.step = "drive", !.outcome = kind]
    IN IF kind = "success"
       THEN [c |-> Return(c1, res),
             m |-> SSOManager_do_record_usage(
                       Begin(SSOManager_do_mark_success(Begin(m), cur)), cur, t)]
       ELSE IF kind = "blocked"
       THEN LET c2 == [c1 EXCEPT !.blocked_retries = c.blocked_retries + 1]
            IN [c |-> IF c2.blocked_retries >= MAX_BLOCKED_RETRIES
                      THEN Return(c2, Result(FALSE, "blocked", "blocked_limit"))
                      ELSE IF pinned THEN Return(c2, res)
                      ELSE GrokClient_next_attempt(c2),
                m |-> SSOManager_do_mark_failed(Begin(m), cur)]
       ELSE IF kind \in ErrorCodes
       THEN LET c2 == [c1 EXCEPT !.last_error = res]
            IN [c |-> IF pinned THEN Return(c2, res) ELSE GrokClient_next_attempt(c2),
                m |-> SSOManager_do_mark_failed(Begin(m), cur)]
       ELSE IF kind = Raises
       THEN LET c2 == [c1 EXCEPT !.last_error = Result(FALSE, "", "exception")]
            IN [c |-> IF pinned THEN Return(c2, c2.last_error)
                      ELSE GrokClient_next_attempt(c2),
                m |-> SSOManager_do_mark_failed(Begin(m), cur)]
       ELSE [c |-> Return(c1, res), m |-> m]

\* ================================== GrokImagineClient.generate_stream ===
\* the most progress events one generator is followed for
MaxEvents == 2

\* an item of the queue: a progress event (its stage) or the result event
Event(type, stage, result) == [type |-> type, stage |-> stage, result |-> result]
NoItem == Event("", "", NoError)
Stages == {"preview", "medium", "final"}

\* a put that jumps the queue
Mutant_queue_put_front(q, e) == <<e>> \o q

\* asyncio.Queue.put on the unbounded queue
Queue_put(q, e) == Append(q, e)

\* the locals of generate_stream(): queue, done, and the consumer loop's
\* position: "test" (the while test), "get" (awaiting queue.get()),
\* "yielded" (suspended at yield item), "closed" (the loop ended and finally
\* ran), "abandoned" (closed by the consumer: finally ran).  "off": generate()
\* was called without a stream callback.  yielded and emitted are observers:
\* the items yielded and the progress events the callback was called with.
StreamOff ==
    [pc |-> "off", queue |-> <<>>, done |-> FALSE, item |-> NoItem,
     yielded |-> <<>>, emitted |-> <<>>]

\* after task = asyncio.create_task(generate_task())
GenerateStream_start == [StreamOff EXCEPT !.pc = "test"]

\* callback(img, prog): one progress event is queued
GenerateStream_callback(s, stage) ==
    LET e == Event("progress", stage, NoError)
    IN [s EXCEPT !.queue = Queue_put(s.queue, e), !.emitted = Append(s.emitted, e)]

\* generate_task() once generate() has returned: the result is queued and
\* done is set
GenerateStream_generate_task(s, c) ==
    IF s.pc /= "off" /\ c.pc = "returned"
    THEN [s EXCEPT !.queue = Queue_put(s.queue, Event("result", "", c.result)),
                   !.done = TRUE]
    ELSE s

\* task.done()
TaskDone(c) == c.pc \in {"returned", "raised"}

\* the finally block that leaves the task alone
Mutant_finally_no_cancel(c) == c

\* "finally: if not task.done(): task.cancel()": CancelledError is raised at
\* the await the task is suspended at, and nothing in generate() catches it
GenerateStream_finally(c) == IF TaskDone(c) THEN c ELSE [c EXCEPT !.pc = "cancelled"]

\* ------------------------------------------------ generate(): the steps ---
poolOnlyVars == <<rm, rc, gen, envVars, now>>

\* a call that goes on without a credential
Mutant_selected_goes_on(c, ret) == [c EXCEPT !.current_sso = ret, !.pc = "verify"]

\* "if not current_sso: return {...}" after get_next_sso() answered ret
GrokClient_selected(c, ret) ==
    IF ret = None
    THEN Return([c EXCEPT !.current_sso = None], Result(FALSE, "", "no_sso"))
    ELSE [c EXCEPT !.current_sso = ret, !.pc = "verify"]

\* a caller enters generate() (no call is in flight) with max_retries 0, 1
\* or MaxRetries
GrokClient_generate ==
    /\ call.pc \in {"idle", "returned", "raised"}
    /\ stream.pc = "off"
    /\ \E sso \in {None} \cup callers, n \in {0, 1, MaxRetries} :
          call' = GrokClient_generate_start(sso, n)
    /\ op' = Quiet
    /\ cycle' = <<>>
    /\ trail' = TrailOff
    /\ UNCHANGED <<fm, stream, poolOnlyVars>>

\* "current_sso = sso if sso else await sso_manager.get_next_sso()" and the
\* return when there is none
GrokClient_select ==
    /\ call.pc = "select"
    /\ LET c == [call EXCEPT !.step = "select"]
       IN IF call.sso /= None
          THEN /\ call' = [c EXCEPT !.current_sso = call.sso, !.pc = "verify"]
               /\ fm' = fm
               /\ op' = Quiet
          ELSE IF fm.sso_list = <<>> /\ Unreadable(ssoFile)
          THEN /\ call' = [c EXCEPT !.current_sso = None, !.pc = "raised"]
               /\ fm' = Begin(fm)
               /\ op' = Quiet
          ELSE \E r \in SSOManager_next_outcomes(Begin(fm), ssoFile, strategy,
                                                  daily_limit, now) :
                  /\ fm' = r.m
                  /\ op' = Op("get_next_sso", r.ret, r.branch)
                  /\ call' = GrokClient_selected(c, r.ret)
    /\ stream' = GenerateStream_generate_task(stream, call')
    /\ cycle' = <<>>
    /\ trail' = TrailOff
    /\ UNCHANGED poolOnlyVars

\* get_age_verified, and _verify_age + set_age_verified when it is 0;
\* _do_generate is entered.  verify records whether _verify_age was called
\* and what it returned (False also when curl_cffi or cf_clearance is missing)
GrokClient_verify_age ==
    /\ call.pc = "verify"
    /\ \E verify_success \in BOOLEAN :
          LET age_verified == SSOManager_get_age_verified(fm, call.current_sso)
          IN /\ fm' = IF age_verified = 0 /\ verify_success
                      THEN SSOManager_do_set_age_verified(Begin(fm), call.current_sso)
                      ELSE Begin(fm)
             /\ call' = [call EXCEPT !.pc = "drive", !.step = "verify",
                                     !.drives = call.drives + 1,
                                     !.verify = IF age_verified /= 0 THEN "skipped"
                                                ELSE IF verify_success THEN "ok"
                                                ELSE "failed"]
    /\ op' = Quiet
    /\ cycle' = <<>>
    /\ trail' = TrailOff
    /\ UNCHANGED <<stream, poolOnlyVars>>

\* _do_generate calls the stream callback
GrokClient_progress ==
    /\ call.pc = "drive"
    /\ stream.pc /= "off"
    /\ Len(stream.emitted) < MaxEvents
    /\ \E stage \in Stages : stream' = GenerateStream_callback(stream, stage)
    /\ call' = [call EXCEPT !.step = "progress"]
    /\ UNCHANGED <<fm, obsVars, poolOnlyVars>>

\* _do_generate returns or raises, and generate() acts on it up to its next
\* await or its return
GrokClient_drive_ends ==
    /\ call.pc = "drive"
    /\ \E kind \in DriveOutcomes :
          /\ kind = "success" => UsageGet(fm.usage, call.current_sso).count < MaxLimit
          /\ LET r == GrokClient_after_drive(call, fm, kind, now)
             IN call' = r.c /\ fm' = r.m
    /\ stream' = GenerateStream_generate_task(stream, call')
    /\ op' = Quiet
    /\ cycle' = <<>>
    /\ trail' = TrailOff
    /\ UNCHANGED poolOnlyVars

\* ------------------------------------ generate(): calls in parallel ---
\* every request handler awaits its own generate() call on the one
\* sso_manager; here the calls in flight are kept in rc, one per coroutine,
\* and each step is the step of the single call above taken by coroutine p.
\* The calls rotate (sso is None) and are given max_retries 1 or 2
GrokClient_generate_by(p) ==
    /\ rc[p].pc \in {"idle", "returned", "raised"}
    /\ \E n \in 1..2 : rc' = [rc EXCEPT ![p] = GrokClient_generate_start(None, n)]
    /\ op' = Quiet
    /\ cycle' = <<>>
    /\ trail' = TrailOff
    /\ UNCHANGED <<fm, rm, gen, clientVars, envVars, now>>

GrokClient_select_by(p) ==
    /\ rc[p].pc = "select"
    /\ LET c == [rc[p] EXCEPT !.step = "select"]
       IN IF fm.sso_list = <<>> /\ Unreadable(ssoFile)
          THEN /\ rc' = [rc EXCEPT ![p] = [c EXCEPT !.current_sso = None, !.pc = "raised"]]
               /\ fm' = Begin(fm)
               /\ op' = Quiet
          ELSE \E r \in SSOManager_next_outcomes(Begin(fm), ssoFile, strategy,
                                                  daily_limit, now) :
                  /\ fm' = r.m
                  /\ op' = Op("get_next_sso", r.ret, r.branch)
                  /\ rc' = [rc EXCEPT ![p] = GrokClient_selected(c, r.ret)]
    /\ cycle' = <<>>
    /\ trail' = TrailOff
    /\ UNCHANGED <<rm, gen, clientVars, envVars, now>>

GrokClient_verify_age_by(p) ==
    /\ rc[p].pc = "verify"
    /\ \E verify_success \in BOOLEAN :
          LET age_verified == SSOManager_get_age_verified(fm, rc[p].current_sso)
          IN /\ fm' = IF age_verified = 0 /\ verify_success
                      THEN SSOManager_do_set_age_verified(Begin(fm), rc[p].current_sso)
                      ELSE Begin(fm)
             /\ rc' = [rc EXCEPT ![p].pc = "drive", ![p].step = "verify",
                                 ![p].drives = rc[p].drives + 1,
                                 ![p].verify = IF age_verified /= 0 THEN "skipped"
                                               ELSE IF verify_success THEN "ok"
                                               ELSE "failed"]
    /\ op' = Quiet
    /\ cycle' = <<>>
    /\ trail' = TrailOff
    /\ UNCHANGED <<rm, gen, clientVars, envVars, now>>

\* the model stops recording once a count has passed MaxLimit, one above
\* the daily limit of the pool these calls share
GrokClient_drive_ends_by(p) ==
    /\ rc[p].pc = "drive"
    /\ \E kind \in DriveOutcomes :
          /\ kind = "success" => UsageGet(fm.usage, rc[p].current_sso).count < MaxLimit
          /\ LET r == GrokClient_after_drive(rc[p], fm, kind, now)
             IN rc' = [rc EXCEPT ![p] = r.c] /\ fm' = r.m
    /\ op' = Quiet
    /\ cycle' = <<>>
    /\ trail' = TrailOff
    /\ UNCHANGED <<rm, gen, clientVars, envVars, now>>

\* ----------------------------------- generate_stream(): the consumer ---
streamOnlyVars == <<fm, obsVars, poolOnlyVars>>

\* "while not done.is_set() or not queue.empty()"; when it fails the
\* generator ends through finally
GenerateStream_test ==
    /\ stream.pc = "test"
    /\ IF ~stream.done \/ stream.queue /= <<>>
       THEN stream' = [stream EXCEPT !.pc = "get"] /\ call' = call
       ELSE stream' = [stream EXCEPT !.pc = "closed"] /\ call' = GenerateStream_finally(call)
    /\ UNCHANGED streamOnlyVars

\* queue.get() returns an item: yield item
GenerateStream_yield ==
    /\ stream.pc = "get"
    /\ stream.queue /= <<>>
    /\ stream' = [stream EXCEPT !.pc = "yielded", !.item = Head(stream.queue),
                                !.queue = Tail(stream.queue),
                                !.yielded = Append(stream.yielded, Head(stream.queue))]
    /\ UNCHANGED <<call, streamOnlyVars>>

\* wait_for(queue.get(), timeout=1.0) times out: continue
GenerateStream_timeout ==
    /\ stream.pc = "get"
    /\ stream.queue = <<>>
    /\ stream' = [stream EXCEPT !.pc = "test"]
    /\ UNCHANGED <<call, streamOnlyVars>>

\* the consumer asks for the next item: break after the result event
\* (through finally), else back to the loop test
GenerateStream_resume ==
    /\ stream.pc = "yielded"
    /\ IF stream.item.type = "result"
       THEN stream' = [stream EXCEPT !.pc = "closed"] /\ call' = GenerateStream_finally(call)
       ELSE stream' = [stream EXCEPT !.pc = "test"] /\ call' = call
    /\ UNCHANGED streamOnlyVars

\* the consumer closes the generator suspended at yield, or is cancelled
\* while the generator waits for an item: finally runs
GenerateStream_close ==
    /\ stream.pc \in {"get", "yielded"}
    /\ stream' = [stream EXCEPT !.pc = "abandoned"]
    /\ call' = GenerateStream_finally(call)
    /\ UNCHANGED streamOnlyVars

\* ------------------------------------------------------- environment ---
\* the clock advances
Tick ==
    /\ now < StartTime + MaxTicks * TickSeconds
    /\ now' = now + TickSeconds
    /\ UNCHANGED <<fm, envVars, obsVars, nonFileVars>>

\* the clock advances by three quarters of an hour
MinuteTicks == 3
ClockStep == TickSeconds \div 16
Minutes ==
    /\ now < StartTime + MinuteTicks * ClockStep
    /\ now' = now + ClockStep
    /\ UNCHANGED <<fm, envVars, obsVars, nonFileVars>>

\* the credential source file is rewritten (main.py's sync, or by hand)
EditSsoFile ==
    /\ \E k \in 1..2 : ssoFile' = SourceFile(k) /\ ssoFile' /= ssoFile
    /\ UNCHANGED <<fm, callers, strategy, daily_limit, observe, backend, now, obsVars,
                   nonFileVars>>

\* ------------------------------------------------- the file-backed pool ---
\* a pool of two credentials under every strategy: selection, usage,
\* failure marks, manual and automatic resets
InitPool ==
    /\ call = CallIdle
    /\ stream = StreamOff
    /\ fm = SSOManager_init
    /\ ssoFile = SourceFile(2)
    /\ callers = {"k1", "k2"}
    /\ strategy \in Strategies
    /\ daily_limit \in 1..MaxLimit
    /\ now = StartTime
    /\ observe = TRUE
    /\ op = Quiet
    /\ cycle = <<>>
    /\ trail = TrailOff
    /\ backend = "file"
    /\ rm = RedisSSOManager_init
    /\ rc = [p \in Coroutines |-> Idle]
    /\ gen = GenIdle

NextPool ==
    \/ SSOManager_load
    \/ SSOManager_get_next_sso
    \/ \E sso \in callers : SSOManager_record_usage(sso)
    \/ \E sso \in callers : SSOManager_mark_failed(sso)
    \/ \E sso \in callers : SSOManager_mark_success(sso)
    \/ SSOManager_reset_daily_usage
    \/ Tick

SpecPool == InitPool /\ [][NextPool]_vars

\* -------------------------------- the file-backed pool with reloads ---
\* the same pool with reload, the age-verified flag and a source file that
\* is rewritten between one and two credentials
InitReload ==
    /\ call = CallIdle
    /\ stream = StreamOff
    /\ fm = SSOManager_init
    /\ ssoFile = SourceFile(2)
    /\ callers = {"k1", "k2"}
    /\ strategy = "hybrid"
    /\ daily_limit = MaxLimit
    /\ now = StartTime
    /\ observe = FALSE
    /\ op = Quiet
    /\ cycle = <<>>
    /\ trail = TrailOff
    /\ backend = "file"
    /\ rm = RedisSSOManager_init
    /\ rc = [p \in Coroutines |-> Idle]
    /\ gen = GenIdle

NextReload ==
    \/ NextPool
    \/ \E sso \in callers : SSOManager_set_age_verified(sso)
    \/ SSOManager_reload
    \/ EditSsoFile

SpecReload == InitReload /\ [][NextReload]_vars

\* ------------------------------------- round robin on either backend ---
\* a pool of three credentials under round_robin, on the backend that
\* settings.REDIS_ENABLED selects, within one reset window
InitRotate ==
    /\ call = CallIdle
    /\ stream = StreamOff
    /\ fm = SSOManager_init
    /\ rm = RedisSSOManager_init
    /\ rc = [p \in Coroutines |-> Idle]
    /\ gen = GenIdle
    /\ backend \in {"file", "redis"}
    /\ ssoFile = SourceFile(3)
    /\ callers = {"k1", "k2", "k3"}
    /\ strategy = "round_robin"
    /\ daily_limit \in 1..MaxLimit
    /\ now = StartTime
    /\ observe = TRUE
    /\ op = Quiet
    /\ cycle = <<>>
    /\ trail = TrailStart

NextRotateFile ==
    \/ SSOManager_load
    \/ SSOManager_get_next_sso
    \/ \E sso \in callers : SSOManager_record_usage(sso)
    \/ \E sso \in callers : SSOManager_mark_failed(sso)
    \/ \E sso \in callers : SSOManager_mark_success(sso)
    \/ SSOManager_reload

NextRotateRedis ==
    \/ RedisSSOManager_initialize
    \/ RedisSSOManager_get_next_sso
    \/ \E sso \in callers : RedisSSOManager_record_usage(sso)
    \/ \E sso \in callers : RedisSSOManager_mark_failed(sso)
    \/ \E sso \in callers : RedisSSOManager_mark_success(sso)

NextRotate ==
    \/ backend = "file" /\ NextRotateFile
    \/ backend = "redis" /\ NextRotateRedis

SpecRotate == InitRotate /\ [][NextRotate]_vars

\* ---------------------------------------------- the shared-store pool ---
\* a pool of two credentials in Redis under the strategies that keep no
\* cursor, each operation run without interruption; callers also pass a
\* pinned credential
InitRedis ==
    /\ call = CallIdle
    /\ stream = StreamOff
    /\ fm = SSOManager_init
    /\ rm = RedisSSOManager_init
    /\ rc = [p \in Coroutines |-> Idle]
    /\ gen = GenIdle
    /\ backend = "redis"
    /\ ssoFile = SourceFile(2)
    /\ callers = {"k1", "k2", Pinned}
    /\ strategy \in Strategies \ {"round_robin"}
    /\ daily_limit \in 1..MaxLimit
    /\ now = StartTime
    /\ observe = TRUE
    /\ op = Quiet
    /\ cycle = <<>>
    /\ trail = TrailOff

NextRedis ==
    \/ RedisSSOManager_initialize
    \/ RedisSSOManager_get_next_sso
    \/ \E sso \in callers : RedisSSOManager_record_usage(sso)
    \/ \E sso \in callers : RedisSSOManager_mark_failed(sso)
    \/ \E sso \in callers : RedisSSOManager_mark_success(sso)
    \/ RedisSSOManager_reset_daily_usage
    \/ Tick

SpecRedis == InitRedis /\ [][NextRedis]_vars

\* ------------------- the Redis pool with the admin routes' own manager ---
\* the generation client selects and records usage, the source file is
\* rewritten, and the admin routes ask for the status and for a reload
InitAdmin ==
    /\ call = CallIdle
    /\ stream = StreamOff
    /\ fm = SSOManager_init
    /\ rm = RedisSSOManager_init
    /\ rc = [p \in Coroutines |-> Idle]
    /\ gen = GenIdle
    /\ backend = "redis"
    /\ ssoFile = SourceFile(2)
    /\ callers = {"k1", "k2"}
    /\ strategy \in Strategies \ {"round_robin"}
    /\ daily_limit \in 1..MaxLimit
    /\ now = StartTime
    /\ observe = TRUE
    /\ op = Quiet
    /\ cycle = <<>>
    /\ trail = TrailOff

NextAdmin ==
    \/ RedisSSOManager_get_next_sso
    \/ \E sso \in callers : RedisSSOManager_record_usage(sso)
    \/ EditSsoFile
    \/ Admin_get_status
    \/ Admin_reload_sso

SpecAdmin == InitAdmin /\ [][NextAdmin]_vars

\* ------------------------------- the shared-store pool, interleaved ---
\* two get_next_sso calls in flight on one store, interleaved command by
\* command with each other and with record_usage and mark_failed
InitRace ==
    /\ call = CallIdle
    /\ stream = StreamOff
    /\ fm = SSOManager_init
    /\ rm = RedisSSOManager_init
    /\ rc = [p \in Coroutines |-> Idle]
    /\ gen = GenIdle
    /\ backend = "redis"
    /\ ssoFile = SourceFile(2)
    /\ callers = {"k1", "k2"}
    /\ strategy = "least_used"
    /\ daily_limit = MaxLimit
    /\ now = StartTime
    /\ observe = FALSE
    /\ op = Quiet
    /\ cycle = <<>>
    /\ trail = TrailOff

NextRace ==
    \/ RedisSSOManager_initialize
    \/ \E p \in Coroutines :
          \/ RedisSSOManager_read_stamp(p)
          \/ RedisSSOManager_reset_count(p)
          \/ RedisSSOManager_reset_failed(p)
          \/ RedisSSOManager_reset_stamp(p)
          \/ RedisSSOManager_selects(p)
    \/ \E sso \in callers : RedisSSOManager_record_usage(sso)
    \/ \E sso \in callers : RedisSSOManager_mark_failed(sso)
    \/ Tick

SpecRace == InitRace /\ [][NextRace]_vars


\* -------------------------------- the shared-store pool with reloads ---
\* two coroutines call reload() and get_next_sso() on one manager while
\* usage and failures are recorded; the source file holds one or two keys
InitLock ==
    /\ call = CallIdle
    /\ stream = StreamOff
    /\ fm = SSOManager_init
    /\ rm = RedisSSOManager_init
    /\ rc = [p \in Coroutines |-> Unlocked]
    /\ gen = GenIdle
    /\ backend = "redis"
    /\ ssoFile \in {SourceFile(1), SourceFile(2)}
    /\ callers = {"k1", "k2"}
    /\ strategy = "hybrid"
    /\ daily_limit = MaxLimit
    /\ now = StartTime
    /\ observe = FALSE
    /\ op = Quiet
    /\ cycle = <<>>
    /\ trail = TrailOff

\* what coroutine p does once it has been called
LockSteps(p) ==
    \/ RedisSSOManager_reload_locked(p)
    \/ RedisSSOManager_initialize_locked(p)
    \/ RedisSSOManager_get_next_sso_rest(p)

NextLock ==
    \/ \E p \in Coroutines :
          \/ RedisSSOManager_reload_called(p)
          \/ RedisSSOManager_get_next_sso_called(p)
          \/ RedisSSOManager_reload_locked(p)
          \/ RedisSSOManager_initialize_locked(p)
          \/ RedisSSOManager_get_next_sso_rest(p)
    \/ \E sso \in callers : RedisSSOManager_record_usage(sso)
    \/ \E sso \in callers : RedisSSOManager_mark_failed(sso)
    \/ Tick

SpecLock == InitLock /\ [][NextLock]_vars

\* the event loop runs every coroutine that can go on, and asyncio.Lock
\* wakes its waiters in turn
SpecLockLive == SpecLock /\ \A p \in Coroutines : SF_vars(LockSteps(p))

\* ------------------------------- the file-backed pool, minute by minute ---
\* a pool of two credentials under hybrid within two and a quarter hours,
\* so that the time factor of a used credential runs from 0 to its cap
InitHybrid ==
    /\ call = CallIdle
    /\ stream = StreamOff
    /\ fm = SSOManager_init
    /\ rm = RedisSSOManager_init
    /\ rc = [p \in Coroutines |-> Idle]
    /\ gen = GenIdle
    /\ backend = "file"
    /\ ssoFile = SourceFile(2)
    /\ callers = {"k1", "k2"}
    /\ strategy = "hybrid"
    /\ daily_limit = MaxLimit
    /\ now = StartTime
    /\ observe = TRUE
    /\ op = Quiet
    /\ cycle = <<>>
    /\ trail = TrailOff

NextHybrid ==
    \/ SSOManager_load
    \/ SSOManager_get_next_sso
    \/ \E sso \in callers : SSOManager_record_usage(sso)
    \/ \E sso \in callers : SSOManager_mark_failed(sso)
    \/ SSOManager_reset_daily_usage
    \/ Minutes

SpecHybrid == InitHybrid /\ [][NextHybrid]_vars

\* -------------------------------------------- two calls on one pool ---
\* two generate() calls in flight on a file-backed pool of two credentials
\* whose daily limit is one below MaxLimit
InitCalls ==
    /\ call = CallIdle
    /\ stream = StreamOff
    /\ fm = SSOManager_init
    /\ rm = RedisSSOManager_init
    /\ rc = [p \in Coroutines |-> CallIdle]
    /\ gen = GenIdle
    /\ backend = "file"
    /\ ssoFile = SourceFile(2)
    /\ callers = {"k1", "k2"}
    /\ strategy = "hybrid"
    /\ daily_limit = MaxLimit - 1
    /\ now = StartTime
    /\ observe = FALSE
    /\ op = Quiet
    /\ cycle = <<>>
    /\ trail = TrailOff

NextCalls ==
    \E p \in Coroutines :
        \/ GrokClient_generate_by(p)
        \/ GrokClient_select_by(p)
        \/ GrokClient_verify_age_by(p)
        \/ GrokClient_drive_ends_by(p)

SpecCalls == InitCalls /\ [][NextCalls]_vars

\* ---------------------------------------------- one generation attempt ---
\* one attempt for n images in which the upstream sends frames of one image
\* id, errors and other messages with every timing, or closes the socket
InitGen ==
    /\ call = CallIdle
    /\ stream = StreamOff
    /\ fm = SSOManager_init
    /\ rm = RedisSSOManager_init
    /\ rc = [p \in Coroutines |-> Idle]
    /\ backend = "file"
    /\ ssoFile = SourceFile(2)
    /\ callers = {"k1", "k2"}
    /\ strategy = "hybrid"
    /\ daily_limit = MaxLimit
    /\ now = StartTime
    /\ observe = FALSE
    /\ op = Quiet
    /\ cycle = <<>>
    /\ trail = TrailOff
    /\ \E n \in 1..2 : gen = GrokClient_start(n, {"i1"})

NextGen ==
    \/ ReceiveImage
    \/ ReceiveImageWithoutId
    \/ ReceiveText
    \/ ReceiveError
    \/ ReceiveOther
    \/ ReceiveClosed
    \/ ReceiveTimeout
    \/ LoopTimeout

SpecGen == InitGen /\ [][NextGen]_vars

\* ------------------------------------- the last second of an attempt ---
\* an attempt for one or two images, one second before GENERATION_TIMEOUT,
\* that has accepted every combination of frames of two image ids at its
\* start and only messages of other types since: it receives more, times
\* out or is closed, and composes its result
ImageIds == {"i1", "i2"}
Orders == {<<>>, <<"i1">>, <<"i2">>, <<"i1", "i2">>, <<"i2", "i1">>}
LateLoops ==
    {LET images == [i \in Range(order) |-> ImageProgress(i, ext[i], blob_size[i])]
     IN [GrokClient_start(n, ImageIds) EXCEPT
            !.t = GenerationTimeout - 1,
            !.order = order,
            !.images = images,
            !.completed = GrokClient_completed(images),
            !.medium_received_time =
                IF \E i \in Range(order) : images[i].stage = "medium" THEN <<0>> ELSE <<>>,
            !.seen = [kind |-> "other", id |-> None]]
     : n \in 1..2, order \in Orders,
       ext \in [ImageIds -> Exts], blob_size \in [ImageIds -> BlobSizes]}

InitSave ==
    /\ call = CallIdle
    /\ stream = StreamOff
    /\ fm = SSOManager_init
    /\ rm = RedisSSOManager_init
    /\ rc = [p \in Coroutines |-> Idle]
    /\ backend = "file"
    /\ ssoFile = SourceFile(2)
    /\ callers = {"k1", "k2"}
    /\ strategy = "hybrid"
    /\ daily_limit = MaxLimit
    /\ now = StartTime
    /\ observe = FALSE
    /\ op = Quiet
    /\ cycle = <<>>
    /\ trail = TrailOff
    /\ gen \in {g \in LateLoops : g.completed < g.n}

SpecSave == InitSave /\ [][NextGen]_vars

\* ------------------------------------------------ generate() on a pool ---
\* calls of generate(), pinned or not, with max_retries 0, 1 or MaxRetries
\* and every outcome of each attempt, one after the other on a
\* pool of two credentials whose source file may be missing or unreadable
InitRetry ==
    /\ call = CallIdle
    /\ stream = StreamOff
    /\ fm = SSOManager_init
    /\ rm = RedisSSOManager_init
    /\ rc = [p \in Coroutines |-> Idle]
    /\ gen = GenIdle
    /\ backend = "file"
    /\ ssoFile \in {SourceFile(2), SourceFile(0), UnreadableFile}
    /\ callers = {Pinned}
    /\ strategy = "hybrid"
    /\ daily_limit = MaxLimit
    /\ now = StartTime
    /\ observe = TRUE
    /\ op = Quiet
    /\ cycle = <<>>
    /\ trail = TrailOff

NextRetry ==
    \/ GrokClient_generate
    \/ GrokClient_select
    \/ GrokClient_verify_age
    \/ GrokClient_drive_ends

SpecRetry == InitRetry /\ [][NextRetry]_vars

\* -------------------------------------------- one generate_stream() ---
\* one generator, its generation task and its consumer, interleaved; the
\* consumer may close the generator at any yield
InitStream ==
    /\ \E sso \in {None, Pinned} : call = GrokClient_generate_start(sso, MaxRetries)
    /\ stream = GenerateStream_start
    /\ fm = SSOManager_init
    /\ rm = RedisSSOManager_init
    /\ rc = [p \in Coroutines |-> Idle]
    /\ gen = GenIdle
    /\ backend = "file"
    /\ ssoFile \in {SourceFile(2), UnreadableFile}
    /\ callers = {Pinned}
    /\ strategy = "hybrid"
    /\ daily_limit = MaxLimit
    /\ now = StartTime
    /\ observe = FALSE
    /\ op = Quiet
    /\ cycle = <<>>
    /\ trail = TrailOff

NextStream ==
    \/ GrokClient_select
    \/ GrokClient_verify_age
    \/ GrokClient_progress
    \/ GrokClient_drive_ends
    \/ GenerateStream_test
    \/ GenerateStream_yield
    \/ GenerateStream_timeout
    \/ GenerateStream_resume
    \/ GenerateStream_close

SpecStream == InitStream /\ [][NextStream]_vars

\* the event loop keeps running both coroutines: the generation task takes
\* its next step when its await completes, and a consumer that does not
\* close the generator keeps asking for the next item
SpecStreamLive ==
    /\ SpecStream
    /\ WF_vars(GrokClient_select \/ GrokClient_verify_age \/ GrokClient_drive_ends)
    /\ WF_vars(GenerateStream_test \/ GenerateStream_yield \/ GenerateStream_timeout
                  \/ GenerateStream_resume)

\* ------------------------------------------------------------ claims ---
\* C1: a credential that get_next_sso returns is not flagged failed and is
\* under its daily limit at that moment, unless the call took the
\* exhaustion-recovery branch of _handle_all_exhausted
C1_ReturnedIsSelectable ==
    (op.name = "get_next_sso" /\ op.ret /= None /\ op.branch /= "recovery")
        => /\ ~UsageGet(fm.usage, op.ret).failed
           /\ UsageGet(fm.usage, op.ret).count < daily_limit

\* a selection that had to pass over a failed or exhausted credential
C1_Witness ==
    /\ op.name = "get_next_sso" /\ op.branch = "selected"
    /\ \E c \in Range(fm.sso_list) :
          /\ c /= op.ret
          /\ UsageGet(fm.usage, c).failed \/ UsageGet(fm.usage, c).count >= daily_limit

\* C5: a boundary check (get_next_sso) applies a reset only if no reset was
\* applied in the 24 hours before it; a check inside the window of the last
\* reset changes no usage count, clears no failed flag and leaves the reset
\* epoch alone; and right after a reset every pool credential has usage
\* count 0 and its failed flag cleared
C5_ResetOncePerWindow ==
    [][(op'.name = "get_next_sso" /\ now' = now /\ fm.sso_list /= <<>>) =>
          /\ fm'.did_reset =>
                /\ fm.reset_at = 0 \/ now - fm.reset_at >= RESET_INTERVAL
                /\ \A c \in Range(fm'.sso_list) :
                      fm'.usage[c].count = 0 /\ ~fm'.usage[c].failed
          /\ (fm.reset_at /= 0 /\ now - fm.reset_at < RESET_INTERVAL) =>
                /\ ~fm'.did_reset
                /\ fm'.last_reset = fm.last_reset
                /\ \A c \in Range(fm.sso_list) :
                      /\ fm'.usage[c].count = fm.usage[c].count
                      /\ op'.branch /= "recovery" => fm'.usage[c].failed = fm.usage[c].failed
      ]_vars

\* a second boundary check inside the window of a reset the first check
\* applied, with usage recorded since
C5_Witness ==
    /\ op.name = "get_next_sso" /\ ~fm.did_reset
    /\ fm.reset_by = "check" /\ now - fm.reset_at < RESET_INTERVAL
    /\ \E c \in Range(fm.sso_list) : fm.usage[c].count > 0

\* C7: no operation lowers the usage count of a credential that stays in the
\* pool, unless that operation ran the daily reset (from the boundary check,
\* from _load_state or from reset_daily_usage)
C7_UsageMonotonic ==
    [][\A c \in Range(fm.sso_list) \cap Range(fm'.sso_list) :
          \/ UsageGet(fm'.usage, c).count >= UsageGet(fm.usage, c).count
          \/ fm'.did_reset
      ]_vars

\* a reload that restored a recorded usage count from the state file: reload
\* alone empties the in-memory table, and nothing was saved since (the file
\* still names a credential the table has lost), so the positive count in
\* the table was read back by _load_state
C7_Witness ==
    /\ ~fm.did_reset
    /\ \E d \in DOMAIN fm.file.usage : d \notin DOMAIN fm.usage
    /\ \E c \in Range(fm.sso_list) : fm.usage[c].count > 0

\* C2: exhaustion recovery on the shared-store backend: a get_next_sso call
\* made with no reset due returns the first credential of the list and
\* leaves no pool credential flagged failed when every pool credential was
\* failed and none quota-exhausted; it returns None and changes no failed
\* flag when every pool credential was quota-exhausted and none failed
C2_ExhaustionRecovery ==
    [][(/\ op'.name = "get_next_sso" /\ now' = now
        /\ rm.initialized /\ rm.sso_list /= <<>>
        /\ rm.daily_reset /= <<>> /\ ~Redis_reset_due(rm.daily_reset, now)) =>
          LET pool == Range(rm.sso_list)
          IN /\ (\A c \in pool : c \in rm.failed /\ rm.usage[c].count < daily_limit) =>
                    /\ op'.ret = rm.sso_list[1]
                    /\ \A c \in pool : c \notin rm'.failed
             /\ (\A c \in pool : c \notin rm.failed /\ rm.usage[c].count >= daily_limit) =>
                    /\ op'.ret = None
                    /\ rm'.failed = rm.failed
      ]_vars

\* the pool list of the backend in use
PoolList == IF backend = "file" THEN fm.sso_list ELSE rm.sso_list

\* C3: in a run of get_next_sso + record_usage pairs on a fresh round_robin
\* pool of k credentials with daily limit L, the first k*L calls each return a
\* credential, every credential is returned exactly L times among them, and
\* call k*L + 1 returns None
C3_RoundRobinQuota ==
    LET k == Len(PoolList)
        n == k * daily_limit
        rets == trail.rets
    IN (trail.paired /\ rets /= <<>>) =>
          /\ \A i \in 1..Len(rets) : (rets[i] = None) <=> (i = n + 1)
          /\ Len(rets) >= n =>
                \A c \in Range(PoolList) :
                    Cardinality({i \in 1..n : rets[i] = c}) = daily_limit

\* three credentials, the largest limit: the run has reached the call after
\* the last pair, and that call returned None
C3_Witness ==
    /\ trail.paired
    /\ Len(PoolList) = 3 /\ daily_limit = MaxLimit
    /\ Len(trail.rets) = 3 * MaxLimit + 1
    /\ trail.rets[3 * MaxLimit + 1] = None

C6_SingleReset ==
    [][\A p \in Coroutines :
          (/\ rc[p].pc \in {"reset_counts", "reset_failed"}
           /\ rc'[p] /= rc[p]
           /\ rm.daily_reset /= <<>>
           /\ ~Redis_reset_due(rm.daily_reset, rc[p].now)) =>
             /\ \A c \in AllCreds : rm'.usage[c].count >= rm.usage[c].count
             /\ rm.failed \subseteq rm'.failed
      ]_vars

\* C8: within an attempt the recorded stage of an image id never goes down
\* in the order preview < medium < final, whatever frame arrives
C8_StageNeverRegresses ==
    [][\A i \in DOMAIN gen.images :
          StageRank(gen'.images[i].stage) >= StageRank(gen.images[i].stage)
      ]_vars

\* C9: once an image id is recorded as final, no later step changes its
\* ImageProgress or calls the stream callback for it
C9_FinalIsKept ==
    [][\A i \in DOMAIN gen.images :
          gen.images[i].is_final =>
             /\ gen'.images[i] = gen.images[i]
             /\ gen'.cb.image_id /= i
      ]_vars

\* a frame for an image id already recorded as final was handled, and the
\* callback was not called
C9_Witness ==
    /\ gen.seen.kind = "image"
    /\ gen.seen.id \in DOMAIN gen.images
    /\ gen.images[gen.seen.id].is_final
    /\ gen.cb = NoCall
    /\ gen.pc = "loop"

\* seconds since the first medium frame
SinceMedium == gen.t - gen.medium_received_time[1]

C11_EventPerStageTransition ==
    [][\A i \in gen.ids :
          (gen' /= gen /\ gen'.cb.image_id = i) <=>
             /\ i \in DOMAIN gen'.images
             /\ \/ i \notin DOMAIN gen.images
                \/ gen'.images[i].stage /= gen.images[i].stage
      ]_vars

\* the progress events among a sequence of items, in order
ProgressOf(items) == SelectSeq(items, LAMBDA e : e.type = "progress")

\* C12: the items a generate_stream generator has yielded hold at most one
\* result event, the result event is the last item, and the progress events
\* come in the order in which the callback was called
C12_ResultLastProgressInOrder ==
    LET y == stream.yielded
        prog == ProgressOf(y)
    IN /\ Cardinality({i \in 1..Len(y) : y[i].type = "result"}) <= 1
       /\ \A i \in 1..Len(y) : y[i].type = "result" => i = Len(y)
       /\ Len(prog) <= Len(stream.emitted)
       /\ \A k \in 1..Len(prog) : prog[k] = stream.emitted[k]

\* two different progress events and then the result have been yielded
C12_Witness ==
    /\ Len(stream.yielded) = 3
    /\ stream.yielded[1].type = "progress"
    /\ stream.yielded[2].type = "progress"
    /\ stream.yielded[1] /= stream.yielded[2]
    /\ stream.yielded[3].type = "result"
    /\ stream.pc = "closed"

\* C13: a generate_stream generator that its consumer does not abandon
\* eventually yields a result event, also when generate() raises
C13_EventuallyResult ==
    <>(\/ stream.pc = "abandoned"
       \/ \E i \in 1..Len(stream.yielded) : stream.yielded[i].type = "result")

\* C14: once the consumer has abandoned the generator, the generation task
\* does nothing more: no step of generate() is taken, so no protocol drive
\* starts, no credential is selected and the pool is not changed
C14_AbandonStopsTask ==
    [][stream.pc = "abandoned" => (call' = call /\ fm' = fm)]_vars

\* the generator was abandoned while an attempt's protocol drive was in
\* flight, and the task is cancelled
C14_Witness ==
    /\ stream.pc = "abandoned"
    /\ call.pc = "cancelled"
    /\ call.step \in {"verify", "progress"}
    /\ call.drives > 0

EndsWith(kinds) ==
    /\ call.pc = "drive"
    /\ call.sso = None
    /\ call'.step = "drive"
    /\ call' /= call
    /\ call'.outcome \in kinds

\* a step in which an unpinned call obtains its credential: it is the one a
\* fresh get_next_sso() call returned
FreshlySelected ==
    (call.pc = "select" /\ call.sso = None /\ call'.pc = "verify") =>
        /\ op'.name = "get_next_sso"
        /\ call'.current_sso = op'.ret

\* C16: every blocked attempt of an unpinned call marks its credential
\* failed; the third one returns the terminal blocked error, so there is
\* never a fourth; below three the loop continues with a fresh selection
C16_BlockedContinues ==
    [][/\ EndsWith({"blocked"}) =>
            /\ UsageGet(fm'.usage, call.current_sso).failed
            /\ call'.blocked_retries = call.blocked_retries + 1
            /\ call'.blocked_retries <= MAX_BLOCKED_RETRIES
            /\ IF call'.blocked_retries = MAX_BLOCKED_RETRIES
               THEN /\ call'.pc = "returned"
                    /\ call'.result = Result(FALSE, "blocked", "blocked_limit")
               ELSE call'.pc = "select"
       /\ FreshlySelected
      ]_vars

\* C16 as amended: below three blocked attempts the loop continues with a
\* fresh selection if the retry budget is not exhausted, and the call
\* returns if it is
C16_BlockedContinuesInBudget ==
    [][/\ EndsWith({"blocked"}) =>
            /\ UsageGet(fm'.usage, call.current_sso).failed
            /\ call'.blocked_retries = call.blocked_retries + 1
            /\ call'.blocked_retries <= MAX_BLOCKED_RETRIES
            /\ IF call'.blocked_retries = MAX_BLOCKED_RETRIES
               THEN /\ call'.pc = "returned"
                    /\ call'.result = Result(FALSE, "blocked", "blocked_limit")
               ELSE IF call.attempt + 1 < call.max_retries
               THEN call'.pc = "select" /\ call'.attempt = call.attempt + 1
               ELSE call'.pc = "returned"
       /\ FreshlySelected
      ]_vars

\* an unpinned call has returned the terminal blocked error on its third
\* blocked attempt, with retries left
C16_Witness ==
    /\ call.pc = "returned"
    /\ call.sso = None
    /\ call.step = "drive"
    /\ call.outcome = "blocked"
    /\ call.blocked_retries = MAX_BLOCKED_RETRIES
    /\ call.result.error_code = "blocked"
    /\ call.attempt + 1 < call.max_retries
    /\ UsageGet(fm.usage, call.current_sso).failed

\* C17: when an attempt of an unpinned call ends with rate_limit_exceeded or
\* unauthorized, the credential is marked failed and, if an iteration is
\* left, the call does not return: its next step is a fresh get_next_sso()
C17_RotatesOnRateLimit ==
    [][/\ EndsWith(ErrorCodes) =>
            /\ UsageGet(fm'.usage, call.current_sso).failed
            /\ call.attempt + 1 < call.max_retries =>
                  /\ call'.pc = "select"
                  /\ call'.attempt = call.attempt + 1
       /\ (call.pc = "select" /\ call.sso = None /\ call.attempt > 0) =>
              op'.name = "get_next_sso"
       /\ FreshlySelected
      ]_vars

\* after a rate-limited attempt the call has selected again and holds the
\* credential that selection returned, a different one
C17_Witness ==
    /\ call.pc = "verify"
    /\ call.sso = None
    /\ call.attempt = 1
    /\ call.outcome = "rate_limit_exceeded"
    /\ call.last_error.error_code = "rate_limit_exceeded"
    /\ op.name = "get_next_sso"
    /\ call.current_sso = op.ret
    /\ call.current_sso = "k2"
    /\ fm.usage["k1"].failed

\* the failures of a protocol drive other than blocked, rate_limit_exceeded
\* and unauthorized: another error code, no image data, a transport
\* failure, an exception raised during the drive
OtherFailures == DriveOutcomes \ ({"success", "blocked"} \cup ErrorCodes)

\* C18: when a protocol drive ends with any other failure, generate()
\* returns an error at once: the call is over, and the pool is as it was
\* (the credential is not marked failed)
C18_OtherFailureReturns ==
    [][(/\ call.pc = "drive"
        /\ call'.step = "drive"
        /\ call' /= call
        /\ call'.outcome \in OtherFailures) =>
            /\ call'.pc = "returned"
            /\ ~call'.result.success
            /\ fm' = fm
      ]_vars

\* generate() has returned because the loop ran out of iterations: the last
\* attempt of an unpinned call ended in a way that continues the loop
Exhausted ==
    /\ call.pc = "returned"
    /\ call.sso = None
    /\ call.step = "drive"
    /\ call.outcome \in {"blocked", Raises} \cup ErrorCodes
    /\ ~(call.outcome = "blocked" /\ call.blocked_retries = MAX_BLOCKED_RETRIES)

\* C19: a call that exhausts max_retries returns the error of its last
\* attempt (the same error code), and the 'all retries failed' error is
\* returned only by a call no attempt of which produced an error
C19_ReturnsLastError ==
    /\ Exhausted => call.result.error_code = DriveResult(call.outcome).error_code
    /\ (call.pc = "returned" /\ call.result.error = "all_retries_failed") =>
          call.drives = 0

\* C20: when get_next_sso() answers None inside generate(), that step
\* returns the 'no credential' error without starting a drive, whatever
\* attempt it is and whatever was recorded before; and a call that has
\* returned never touches the pool again
C20_NoCredentialReturnsAtOnce ==
    [][/\ (/\ call.pc = "select" /\ call.sso = None
           /\ op'.name = "get_next_sso" /\ op'.ret = None) =>
              /\ call'.pc = "returned"
              /\ call'.result = Result(FALSE, "", "no_sso")
              /\ call'.drives = call.drives
       /\ call.pc = "returned" => fm' = fm
      ]_vars

\* the pool ran out in the second attempt of a call with retries left,
\* after a rate-limited first attempt
C20_Witness ==
    /\ call.pc = "returned"
    /\ call.result = Result(FALSE, "", "no_sso")
    /\ call.max_retries = MaxRetries
    /\ call.attempt = 1
    /\ call.drives = 1
    /\ call.last_error.error_code = "rate_limit_exceeded"
    /\ op.name = "get_next_sso" /\ op.ret = None

\* C21: a generate() call with a pinned credential (and max_retries >= 1)
\* never calls get_next_sso(), uses the pinned credential, and performs
\* exactly one protocol drive: whatever the first attempt's outcome, the
\* step that handles it returns
C21_PinnedSingleDrive ==
    [][(call'.sso /= None /\ call'.max_retries >= 1) =>
          /\ op'.name /= "get_next_sso"
          /\ call'.drives <= 1
          /\ call'.pc \in {"verify", "drive"} => call'.current_sso = call'.sso
          /\ call'.pc = "returned" => call'.drives = 1
          /\ (call.pc = "drive" /\ call'.step = "drive" /\ call' /= call) =>
                /\ call'.pc = "returned"
                /\ call'.outcome \in DriveOutcomes
      ]_vars

\* a pinned call with retries to spare has returned after one drive that raised
C21_Witness ==
    /\ call.sso = Pinned
    /\ call.max_retries = MaxRetries
    /\ call.pc = "returned"
    /\ call.outcome = Raises
    /\ call.drives = 1

\* C22: the step that handles a successful attempt leaves the credential
\* that succeeded unfailed and with its usage count raised by exactly one,
\* and changes no other count; the steps of an attempt that ends in any
\* other way (age verification included) change no usage count
C22_UsageOnlyOnSuccess ==
    [][(call.pc \in {"verify", "drive"} /\ call' /= call) =>
          LET cur == call.current_sso
              success == call.pc = "drive" /\ call'.step = "drive" /\ call'.outcome = "success"
          IN /\ success =>
                   /\ ~UsageGet(fm'.usage, cur).failed
                   /\ UsageGet(fm'.usage, cur).count = UsageGet(fm.usage, cur).count + 1
             /\ \A c \in DOMAIN fm.usage \cup DOMAIN fm'.usage :
                   (~success \/ c /= cur) =>
                       UsageGet(fm'.usage, c).count = UsageGet(fm.usage, c).count
      ]_vars

\* a call succeeded with a credential that an earlier call had marked
\* failed (handed out again by exhaustion recovery); it is unfailed and used once
C22_Witness ==
    /\ call.pc = "returned"
    /\ call.result.success
    /\ call.attempt >= 1
    /\ call.current_sso \in DOMAIN fm.usage
    /\ fm.usage[call.current_sso].count = 1
    /\ ~fm.usage[call.current_sso].failed
    /\ \E c \in DOMAIN fm.usage : fm.usage[c].failed

\* C23: a reload() call on the shared-store backend always completes: a
\* coroutine that has entered reload() eventually returns from it
C23_ReloadCompletes ==
    \A p \in Coroutines : (rc[p].pc = "reload") ~> (rc[p].pc = "idle")

\* C24: load() is idempotent and non-destructive: a load_sso_list() step on
\* a manager that has loaded the same source and stands inside a reset
\* window it has begun keeps the list, and so the returned count, and keeps
\* count, last_used, failed and age_verified of every credential of the pool
C24_LoadIdempotent ==
    [][(/\ fm' = SSOManager_load_sso_list(Begin(fm), ssoFile, now)
        /\ fm.sso_list /= <<>>
        /\ fm.sso_list = ParseSsoFile(ssoFile)
        /\ fm.last_reset /= 0
        /\ now - fm.last_reset < RESET_INTERVAL) =>
          /\ Len(fm'.sso_list) = Len(fm.sso_list)
          /\ \A c \in Range(fm.sso_list) : fm'.usage[c] = fm.usage[c]
      ]_vars

\* C25: under hybrid, when a get_next_sso() call finds two selectable
\* credentials with the same count, one never used and one used less than
\* 100 minutes before, the never-used one has the strictly greater score,
\* the used one is not returned, and with no third selectable credential
\* the never-used one is returned
C25_NeverUsedBeatsRecent ==
    [][(op'.name = "get_next_sso" /\ now' = now /\ fm.sso_list /= <<>>) =>
          \A a, b \in Range(Selectable(fm)) :
              (/\ fm.usage[a].last_used = 0
               /\ fm.usage[b].last_used /= 0
               /\ now - fm.usage[b].last_used < 6000
               /\ fm.usage[a].count = fm.usage[b].count) =>
                  /\ HybridScore(fm.usage[a], daily_limit, now)
                        > HybridScore(fm.usage[b], daily_limit, now)
                  /\ op'.ret /= b
                  /\ Range(Selectable(fm)) = {a, b} => op'.ret = a
      ]_vars

\* the second credential of the list was returned although the first one,
\* used an hour and a half before and reset since, has the same count
C25_Witness ==
    /\ op.name = "get_next_sso" /\ op.ret = "k2"
    /\ fm.usage["k2"].last_used = 0
    /\ fm.usage["k1"].last_used /= 0
    /\ now - fm.usage["k1"].last_used = 2 * ClockStep
    /\ fm.usage["k1"].count = fm.usage["k2"].count
    /\ ~fm.usage["k1"].failed /\ ~fm.usage["k2"].failed

\* C26: in every attempt of generate() _verify_age is called if and only if
\* get_age_verified returned 0 for the attempt's credential; a call that
\* succeeds leaves the flag at 1; _do_generate is entered whether the call
\* succeeded, failed or was skipped; and no step of generate() takes a flag
\* back from 1, so later attempts with that credential call none
C26_AgeVerification ==
    [][/\ (call.pc = "verify" /\ call' /= call) =>
             LET cur == call.current_sso
             IN /\ call'.verify /= "skipped" <=> SSOManager_get_age_verified(fm, cur) = 0
                /\ call'.verify = "ok" => SSOManager_get_age_verified(fm', cur) = 1
                /\ call'.pc = "drive"
                /\ call'.drives = call.drives + 1
       /\ \A c \in AllCreds :
             SSOManager_get_age_verified(fm, c) = 1 => SSOManager_get_age_verified(fm', c) = 1
      ]_vars

\* a later attempt of a call skipped the verification of its credential,
\* whose flag an earlier verification had set, and entered _do_generate
C26_Witness ==
    /\ call.pc = "drive"
    /\ call.attempt >= 1
    /\ call.verify = "skipped"
    /\ SSOManager_get_age_verified(fm, call.current_sso) = 1

\* C27: whatever the interleaving of the generate() calls that share a
\* pool, no credential's usage count exceeds daily_limit
C27_CountWithinLimit ==
    \A c \in DOMAIN fm.usage : fm.usage[c].count <= daily_limit

\* C28: exhaustion recovery never hands out a quota-exhausted credential: a
\* get_next_sso() call that runs no reset and finds no credential selectable
\* and some credential of the pool at its daily limit returns None and
\* clears no failed flag, also when every credential is flagged failed
C28_NoRecoveryWhenExhausted ==
    [][(/\ op'.name = "get_next_sso" /\ now' = now
        /\ fm.sso_list /= <<>>
        /\ ~fm'.did_reset
        /\ Selectable(fm) = <<>>
        /\ \E c \in Range(fm.sso_list) : UsageGet(fm.usage, c).count >= daily_limit) =>
          /\ op'.ret = None
          /\ \A c \in DOMAIN fm.usage : fm'.usage[c].failed = fm.usage[c].failed
      ]_vars

\* C29: an attempt that returns success with at least one final image among
\* the captured ones returns exactly the final images; non-final images are
\* returned only when no captured image is final
C29_OnlyFinalsWhenAnyFinal ==
    (gen.pc = "done" /\ gen.result.kind = "success") =>
        LET finals == {i \in DOMAIN gen.images : gen.images[i].is_final}
        IN IF finals /= {} THEN Range(gen.saved) = finals
           ELSE Range(gen.saved) \subseteq DOMAIN gen.images

\* C30: reset precedes selection: a get_next_sso() call on a non-empty pool
\* (daily_limit is at least 1) made when 24 hours or more have passed since
\* the last reset runs the reset and returns a credential of the pool,
\* whatever the counts and failed flags were before the call
C30_ResetPrecedesSelection ==
    [][(/\ op'.name = "get_next_sso" /\ now' = now
        /\ fm.sso_list /= <<>>
        /\ fm.last_reset /= 0
        /\ now - fm.last_reset >= RESET_INTERVAL) =>
          /\ fm'.did_reset
          /\ op'.ret /= None
          /\ op'.ret \in Range(fm.sso_list)
      ]_vars

\* a call returned a credential after the reset it ran itself, in a pool
\* with daily limit 1 whose credentials had all been used half a day
\* before that reset
C30_Witness ==
    /\ op.name = "get_next_sso" /\ op.ret /= None
    /\ fm.did_reset /\ fm.reset_by = "check" /\ fm.reset_at = now
    /\ daily_limit = 1
    /\ \A c \in Range(fm.sso_list) : fm.usage[c].last_used = fm.last_reset - TickSeconds

\* C31: on the file backend, when a public mutating operation (get_next_sso,
\* record_usage, mark_failed, mark_success, set_age_verified,
\* reset_daily_usage) has changed last_reset, current_index or a
\* credential's fields, the state file holds the same last_reset,
\* current_index and per-credential fields as the manager
C31_StateFileFollows ==
    [][(/\ now' = now
        /\ <<fm'.usage, fm'.last_reset, fm'.current_index>>
              /= <<fm.usage, fm.last_reset, fm.current_index>>
        /\ fm' /= SSOManager_load_sso_list(Begin(fm), ssoFile, now)) =>
          fm'.file = [exists |-> TRUE, last_reset |-> fm'.last_reset,
                      current_index |-> fm'.current_index, usage |-> fm'.usage]
      ]_vars

\* C32: idle completion: a read timeout that fires with at least one final
\* recorded and more than 10 s after the last frame ends the receive loop,
\* and the attempt returns success with the captured images that could be
\* saved; a read timeout that fires with no final recorded never makes the
\* attempt return success
C32_IdleCompletion ==
    [][(gen.pc = "loop" /\ gen'.seen.kind = "timeout" /\ gen'.t /= gen.t) =>
          /\ (gen.completed > 0 /\ gen'.t - gen.last_activity > IDLE_COMPLETE) =>
                /\ gen'.pc = "done"
                /\ gen'.result.via = "loop_end"
                /\ gen'.images = gen.images
                /\ gen'.saved /= <<>> =>
                      /\ gen'.result.kind = "success"
                      /\ Range(gen'.saved) \subseteq DOMAIN gen.images
          /\ (gen.completed > 0 /\ gen'.t - gen.last_activity <= IDLE_COMPLETE) =>
                gen'.pc = "loop"
          /\ gen.completed = 0 =>
                ~(gen'.pc = "done" /\ gen'.result.kind = "success")
      ]_vars

\* an attempt for two images returned success with its one final image
\* after three read timeouts in a row, before the generation timeout
C32_Witness ==
    /\ gen.pc = "done" /\ gen.result = [kind |-> "success", via |-> "loop_end"]
    /\ gen.seen.kind = "timeout"
    /\ gen.n = 2 /\ gen.completed = 1
    /\ gen.t - gen.last_activity = 3 * RECEIVE_TIMEOUT
    /\ gen.t < GenerationTimeout

\* C33 as stated: an error frame with code rate_limit_exceeded ends the
\* attempt in that step with a rate_limit_exceeded result, whatever was
\* captured before; an error frame with another code does not end the
\* attempt, and the attempt returns that code only when the loop has ended
\* and no image was saved
C33_OtherErrorNeverEnds ==
    /\ gen.seen.kind = "error" =>
          IF gen.error_info = "rate_limit_exceeded"
          THEN gen.pc = "done" /\ gen.result = [kind |-> "rate_limit_exceeded", via |-> "frame"]
          ELSE gen.pc = "loop"
    /\ (gen.pc = "done" /\ gen.result.kind \in ErrorCodes \ {"rate_limit_exceeded"}) =>
          /\ gen.result.via = "loop_end"
          /\ gen.saved = <<>>
          /\ gen.error_info = gen.result.kind

\* C33 as amended: the same, except that the step that handles an error
\* frame with another code ends the attempt as blocked when a medium frame
\* was seen more than 15 s before and no final is recorded
C33_ErrorFrames ==
    /\ gen.seen.kind = "error" =>
          IF gen.error_info = "rate_limit_exceeded"
          THEN gen.pc = "done" /\ gen.result = [kind |-> "rate_limit_exceeded", via |-> "frame"]
          ELSE \/ gen.pc = "loop"
               \/ /\ gen.result = [kind |-> "blocked", via |-> "frame"]
                  /\ gen.completed = 0
                  /\ gen.medium_received_time /= <<>>
                  /\ gen.t - gen.medium_received_time[1] > BLOCKED_AFTER_FRAME
    /\ (gen.pc = "done" /\ gen.result.kind \in ErrorCodes \ {"rate_limit_exceeded"}) =>
          /\ gen.result.via = "loop_end"
          /\ gen.saved = <<>>
          /\ gen.error_info = gen.result.kind

\* a rate-limit error frame ended an attempt that had recorded a final image
C33_Witness ==
    /\ gen.pc = "done" /\ gen.result.kind = "rate_limit_exceeded"
    /\ gen.seen.kind = "error"
    /\ gen.completed = 1

\* C34: when the stream callback raises while an image frame is handled, the
\* frame is recorded all the same (the image, its stage and the count of
\* finals), and the step ends exactly as it can end with a callback that
\* returns: the loop goes on, or the attempt ends with the same result
C34_CallbackErrorSwallowed ==
    [][gen'.cb.raised =>
          /\ gen'.seen.kind = "image"
          /\ gen'.cb.image_id \in DOMAIN gen'.images
          /\ gen'.images[gen'.cb.image_id].stage = gen'.cb.stage
          /\ gen'.completed = GrokClient_completed(gen'.images)
          /\ gen'.result.kind /= "callback_error"
          /\ \E ext \in Exts :
                [gen' EXCEPT !.cb.raised = FALSE]
                   \in GrokClient_on_image(gen, gen'.t, gen'.cb.image_id, ext,
                                           gen'.images[gen'.cb.image_id].blob_size)
      ]_vars

\* the callback raised on the final frame that completed a one-image attempt,
\* and the attempt succeeded
C34_Witness ==
    /\ gen.cb.raised /\ gen.cb.stage = "final"
    /\ gen.pc = "done" /\ gen.result = [kind |-> "success", via |-> "loop_end"]
    /\ gen.n = 1 /\ gen.completed = 1

\* C35: a recorded frame is final exactly when its payload is larger than
\* 100000 and its url ends in .jpg, medium exactly when it is not final and
\* its payload is larger than 30000, and preview otherwise; the final flag
\* goes with the final stage
C35_StageClassification ==
    gen.cb.image_id /= None =>
        LET img == gen.images[gen.cb.image_id]
            final == img.blob_size > 100000 /\ gen.cb.ext = "jpg"
        IN /\ gen.cb.stage = img.stage
           /\ img.is_final <=> final
           /\ img.stage = "final" <=> final
           /\ img.stage = "medium" <=> (~final /\ img.blob_size > 30000)
           /\ img.stage = "preview" <=> (~final /\ img.blob_size <= 30000)

\* a .png frame of 100001 bytes was recorded as medium
C35_Witness ==
    /\ gen.cb.image_id /= None
    /\ gen.cb.ext = "png"
    /\ gen.images[gen.cb.image_id].blob_size = 100001
    /\ gen.images[gen.cb.image_id].stage = "medium"
    /\ ~gen.images[gen.cb.image_id].is_final

\* C36: in an attempt for n >= 1 images the completed counter is the number
\* of recorded images flagged final, is at most n, and is below n while the
\* receive loop runs; no step lowers it
C36_CompletedCounter ==
    /\ [](gen.n >= 1 =>
            /\ gen.completed = Cardinality({i \in DOMAIN gen.images : gen.images[i].is_final})
            /\ gen.completed <= gen.n
            /\ gen.pc = "loop" => gen.completed < gen.n)
    /\ [][gen'.completed >= gen.completed]_vars

\* a second final frame completed an attempt for two images
C36_Witness ==
    /\ gen.pc = "done" /\ gen.seen.kind = "image"
    /\ gen.n = 2 /\ gen.completed = 2
    /\ gen.result.via = "loop_end"

\* C37: on the Redis backend a get_next_sso call takes the recovery branch
\* (it deletes the failed set and returns the first credential of the list)
\* only when every credential of the pool list was in the failed set
C37_RecoveryOnlyWhenAllFailed ==
    [][(op'.name = "get_next_sso" /\ now' = now /\ op'.branch = "recovery") =>
          \A c \in Range(rm'.sso_list) : c \in rm.failed
      ]_vars

\* C38: once the pool list is loaded, the failed_count that get_status
\* reports is the number of entries of its "keys" list, one per credential of
\* the pool list, whose failed flag is true, and so is at most total_keys
C38_FailedCountIsListed ==
    LET status == SSOManager_get_status(fm)
    IN fm.sso_list /= <<>> =>
          /\ status.failed_count = Cardinality({i \in DOMAIN status.keys : status.keys[i]})
          /\ status.failed_count <= status.total_keys

\* C39: on the Redis backend a credential that a get_next_sso call of the
\* generation client returns is one of the list that the admin routes'
\* manager holds as loaded (the list its reload() or its initialize() read)
C39_ReloadVisible ==
    [][(/\ op'.name = "get_next_sso" /\ ssoFile' = ssoFile /\ now' = now
        /\ rm.admin.initialized
        /\ op'.ret /= None) =>
          op'.ret \in Range(rm.admin.sso_list)
      ]_vars

====
